---- MODULE Spec2Model ----
(***************************************************************************)
(* Amberize: tamper-evident IMAP archive.                                  *)
(*                                                                         *)
(* The model covers the SQLite storage layer (crates/storage/src/lib.rs),  *)
(* the per-account synchronizer (crates/adapters/src/sync.rs) and the      *)
(* integrity checks driven by the desktop shell (background_sync.rs).      *)
(*                                                                         *)
(* The database file is the variable db.  Every storage method opens its   *)
(* own connection and runs one transaction: it is an operator from the     *)
(* committed database to a result [ok, db, value], where db is what the     *)
(* file holds afterwards (the input database when the transaction was      *)
(* dropped without commit).                                                *)
(*                                                                         *)
(* SHA-256 is modelled as a collision-free digest: the hex digest of a     *)
(* value is a canonical text of its preimage (event hashes: the tuple of   *)
(* hashed fields; root hash: the text of the sorted digest list; message   *)
(* digests: an injective integer code, so that they can be ordered).       *)
(***************************************************************************)
EXTENDS Integers, Sequences, FiniteSets, TLC

VARIABLES
    db,         \* the committed content of the archive database file
    last,       \* the last completed operation: its name, outcome and injected fault
    sync,       \* the account sync in flight (sync_account_once_with_progress)
    integrity,  \* AppState.integrity_status: the last IntegrityStatus recorded
    returned,   \* history: blob ids ingest_message has returned, per message body
    tamper,     \* history: what the external actor removed from the file
    server,     \* the IMAP account on the server: folders, UIDs and bodies it holds
    sync_lock,  \* AppState.sync_lock: TRUE while a guard of the mutex is alive
    ops,        \* where each sync operation stands: "idle", "waiting", "running"
    faults,     \* the failures the environment of this run can produce
    background, \* the loop of start_background_sync and AppState.active_db_path
    package,    \* the auditor package last written by export_auditor_package
    call,       \* the last call recorded: its name, its input and its result
    connections, \* the open transaction of each database connection that appends
    secrets     \* the keychain entry, SECRET_CACHE and the secret store calls under way

vars ==
    <<db, last, sync, integrity, returned, tamper, server, sync_lock, ops, faults,
      background, package, call, connections, secrets>>

----------------------------------------------------------------------------
(* Bounds of the model. *)

NumMessages == 2        \* distinct message bodies
MaxEvents == 3          \* length of the event log
MaxAccounts == 1        \* account rows
NumMailboxNames == 2    \* distinct mailbox names per account
MaxUid == 2             \* IMAP UIDs 1..MaxUid
MaxUidValidity == 1     \* UIDVALIDITY values 1..MaxUidValidity
MaxClock == 0           \* readings 0..MaxClock of now_rfc3339()
MaxTamper == 1          \* rows groups removed by the external actor
MaxMailboxClock == 1    \* readings 0..MaxMailboxClock of now_rfc3339() in SpecMailbox
MaxCycles == 11         \* cycles the background task counts in SpecBackground
MaxExports == 2         \* auditor packages exported in SpecExport
MaxQueryLen == 5        \* characters of a search query in SpecFts
NumConnections == 2     \* connections appending events at a time in SpecConnections
MaxRewrites == 2        \* event rows rewritten by the external actor in SpecChain
NumCallers == 2         \* threads calling the secret store at a time in SpecSecrets
NumSecretValues == 2    \* secrets 1..NumSecretValues stored under the one secret_ref

Messages == 1..NumMessages
AccountIds == 1..MaxAccounts
MailboxNames == 1..NumMailboxNames
BlobIds == 1..NumMessages
Uids == 1..MaxUid
UidValidities == 1..MaxUidValidity
Clock == 0..MaxClock

----------------------------------------------------------------------------
(* Values. *)

\* SQL NULL / Option::None for an integer column (row ids start at 1,
\* UIDVALIDITY 0 is "not advertised").
Null == 0

\* mailboxes.last_error: None, or Some(text).  The text of an error is
\* never branched on; only its presence is kept.
NoError == "NULL"
SomeError == "error"

\* Option<String>::None for a timestamp column (last_sync_at).
NoTime == -1

\* Mailbox name 1 is "INBOX".
INBOX == 1

EVENT_KIND_SYNC_FINISHED == "sync_finished"
EVENT_KIND_EMAIL_ARCHIVED == "email_archived"
EVENT_KIND_INTEGRITY_CHECK == "integrity_check"
EVENT_KIND_TAMPERING_DETECTED == "tampering_detected"
EVENT_KIND_ACCOUNT_CREATED == "account_created"
EVENT_KIND_ACCOUNT_REMOVED == "account_removed"
EVENT_KIND_APP_STARTED == "app_started"
EVENT_KIND_MAILBOX_SYNC_CHANGED == "mailbox_sync_changed"

\* A detail text.  A JSON object text is its member list; any other text is
\* kept literally.  Members are {key, kind, str, num} with kind "string" or
\* "number".
JsonObject(members) == [text |-> "{}", members |-> members]
RawText(s) == [text |-> s, members |-> <<>>]
JStr(k, s) == [key |-> k, kind |-> "string", str |-> s, num |-> 0]
JNum(k, n) == [key |-> k, kind |-> "number", str |-> "", num |-> n]
JBool(k, b) == [key |-> k, kind |-> "bool", str |-> "", num |-> IF b THEN 1 ELSE 0]
\* An array of strings: the items joined by commas and their number.
RECURSIVE Joined(_)
Joined(items) ==
    IF items = <<>> THEN ""
    ELSE IF Len(items) = 1 THEN items[1]
    ELSE items[1] \o "," \o Joined(Tail(items))
JArr(k, items) == [key |-> k, kind |-> "array", str |-> Joined(items), num |-> Len(items)]
NullDetail == RawText("<NULL>")

\* serde_json: parsed.get(key) on the parsed detail; <<>> when the text is
\* no JSON object or has no such member.
JsonGet(detail, k) ==
    IF detail.text # "{}" THEN <<>>
    ELSE SelectSeq(detail.members, LAMBDA m : m.key = k)

\* hex::encode(Sha256::digest(raw_mime)) of message body m.
sha256_hex(m) == (m * 5) % 7

\* "0".repeat(64)
ZeroHash == <<"0000000000000000000000000000000000000000000000000000000000000000">>

\* Option<String>::None for a hash.
NoHash == <<>>

\* id.to_string() for Some(id), nothing for None.
IdText(id) == IF id = Null THEN "" ELSE ToString(id)

\* A hash that takes an empty detail for "{}".
compute_event_hash_empty_as_object(prev_hash, input) ==
    <<prev_hash, input.occurred_at, input.kind, IdText(input.account_id),
      IdText(input.mailbox_id), IdText(input.message_blob_id),
      IF input.detail = [text |-> "", members |-> <<>>]
      THEN [text |-> "{}", members |-> <<>>] ELSE input.detail>>

compute_event_hash(prev_hash, input) ==
    <<prev_hash, input.occurred_at, input.kind, IdText(input.account_id),
      IdText(input.mailbox_id), IdText(input.message_blob_id), input.detail>>

RECURSIVE SortAsc(_)
SortAsc(S) ==
    IF S = {} THEN <<>>
    ELSE LET m == CHOOSE x \in S : \A y \in S : x <= y
         IN  <<m>> \o SortAsc(S \ {m})

\* SELECT sha256 FROM message_blobs ORDER BY sha256 ASC, each followed by LF,
\* digested.
compute_message_blobs_root_hash(d) ==
    ToString(SortAsc({b.sha256 : b \in d.message_blobs}))

count_rows(d, table) ==
    CASE table = "accounts" -> Cardinality(d.accounts)
      [] table = "mailboxes" -> Cardinality(d.mailboxes)
      [] table = "message_blobs" -> Cardinality(d.message_blobs)
      [] table = "message_locations" -> Cardinality(d.message_locations)
      [] table = "events" -> Len(d.events)
      [] OTHER -> 0

----------------------------------------------------------------------------
(* Schema and migration. *)

\* Schema v2 with the events trigger left out.
apply_schema_v2_blobs_only == {"prevent_delete_message_blobs"}

\* The BEFORE DELETE triggers schema v2 creates.
apply_schema_v2 == {"prevent_delete_message_blobs", "prevent_delete_events"}

\* Fresh database: create_schema_v1 (empty tables), apply_schema_v2.
migrate ==
    [accounts |-> {}, mailboxes |-> {}, message_blobs |-> {},
     message_locations |-> {}, events |-> <<>>,
     sqlite_sequence |-> [accounts |-> 0, mailboxes |-> 0,
                          message_blobs |-> 0, events |-> 0],
     triggers |-> apply_schema_v2]

----------------------------------------------------------------------------
(* Results and row access. *)

Ok(d, v) == [ok |-> TRUE, db |-> d, value |-> v]
Err(d) == [ok |-> FALSE, db |-> d, value |-> Null]

HasRow(rows, id) == \E r \in rows : r.id = id

\* Foreign keys not enforced (PRAGMA foreign_keys left OFF).
FkOk_not_enforced(rows, id) == TRUE

\* A FOREIGN KEY column under PRAGMA foreign_keys=ON: NULL, or the id of an
\* existing parent row.
FkOk(rows, id) == id = Null \/ HasRow(rows, id)

----------------------------------------------------------------------------
(* Accounts and mailboxes. *)

create_account(d, mailbox_selection_mode) ==
    LET account_id == d.sqlite_sequence.accounts + 1
    IN  Ok([d EXCEPT !.accounts = @ \cup {[id |-> account_id,
                           mailbox_selection_mode |-> mailbox_selection_mode,
                           disabled |-> FALSE]},
                     !.sqlite_sequence.accounts = account_id],
           account_id)

set_account_disabled(d, account_id, disabled) ==
    Ok([d EXCEPT !.accounts =
            {IF a.id = account_id THEN [a EXCEPT !.disabled = disabled] ELSE a
                : a \in @}],
       Null)

MailboxByName(d, account_id, imap_name) ==
    {m \in d.mailboxes : m.account_id = account_id /\ m.imap_name = imap_name}

\* An upsert whose ON CONFLICT clause also sets sync_enabled.
upsert_mailbox_overwrites_sync_enabled(d, input, now) ==
    LET existing == MailboxByName(d, input.account_id, input.imap_name)
    IN  IF existing # {}
        THEN LET old == CHOOSE m \in existing : TRUE
                 new == [old EXCEPT
                           !.delimiter = input.delimiter,
                           !.attributes = input.attributes,
                           !.sync_enabled = input.sync_enabled,
                           !.hard_excluded = input.hard_excluded,
                           !.uidvalidity = IF input.uidvalidity # Null
                                           THEN input.uidvalidity ELSE @,
                           !.updated_at = now]
             IN  Ok([d EXCEPT !.mailboxes = (@ \ {old}) \cup {new}], old.id)
        ELSE IF ~FkOk(d.accounts, input.account_id) THEN Err(d)
        ELSE LET mailbox_id == d.sqlite_sequence.mailboxes + 1
             IN  Ok([d EXCEPT
                       !.mailboxes = @ \cup {[id |-> mailbox_id,
                            account_id |-> input.account_id,
                            imap_name |-> input.imap_name,
                            delimiter |-> input.delimiter,
                            attributes |-> input.attributes,
                            sync_enabled |-> input.sync_enabled,
                            hard_excluded |-> input.hard_excluded,
                            uidvalidity |-> input.uidvalidity,
                            last_seen_uid |-> input.last_seen_uid,
                            last_sync_at |-> NoTime,
                            last_error |-> NoError,
                            created_at |-> now,
                            updated_at |-> now]},
                       !.sqlite_sequence.mailboxes = mailbox_id],
                    mailbox_id)

\* INSERT ... ON CONFLICT(account_id, imap_name) DO UPDATE SET delimiter,
\* attributes, hard_excluded, uidvalidity = coalesce(excluded.uidvalidity,
\* uidvalidity), updated_at.  now is the reading of now_rfc3339().
upsert_mailbox(d, input, now) ==
    LET existing == MailboxByName(d, input.account_id, input.imap_name)
    IN  IF existing # {}
        THEN LET old == CHOOSE m \in existing : TRUE
                 new == [old EXCEPT
                           !.delimiter = input.delimiter,
                           !.attributes = input.attributes,
                           !.hard_excluded = input.hard_excluded,
                           !.uidvalidity = IF input.uidvalidity # Null
                                           THEN input.uidvalidity ELSE @,
                           !.updated_at = now]
             IN  Ok([d EXCEPT !.mailboxes = (@ \ {old}) \cup {new}], old.id)
        ELSE IF ~FkOk(d.accounts, input.account_id) THEN Err(d)
        ELSE LET mailbox_id == d.sqlite_sequence.mailboxes + 1
             IN  Ok([d EXCEPT
                       !.mailboxes = @ \cup {[id |-> mailbox_id,
                            account_id |-> input.account_id,
                            imap_name |-> input.imap_name,
                            delimiter |-> input.delimiter,
                            attributes |-> input.attributes,
                            sync_enabled |-> input.sync_enabled,
                            hard_excluded |-> input.hard_excluded,
                            uidvalidity |-> input.uidvalidity,
                            last_seen_uid |-> input.last_seen_uid,
                            last_sync_at |-> NoTime,
                            last_error |-> NoError,
                            created_at |-> now,
                            updated_at |-> now]},
                       !.sqlite_sequence.mailboxes = mailbox_id],
                    mailbox_id)

set_mailbox_sync_enabled(d, mailbox_id, sync_enabled, now) ==
    Ok([d EXCEPT !.mailboxes =
            {IF m.id = mailbox_id THEN [m EXCEPT !.sync_enabled = sync_enabled,
                                                 !.updated_at = now]
                                  ELSE m : m \in @}],
       Null)

update_mailbox_cursor(d, mailbox_id, uidvalidity, last_seen_uid, last_sync_at, last_error, now) ==
    Ok([d EXCEPT !.mailboxes =
            {IF m.id = mailbox_id
             THEN [m EXCEPT !.uidvalidity = uidvalidity,
                            !.last_seen_uid = last_seen_uid,
                            !.last_sync_at = last_sync_at,
                            !.last_error = last_error,
                            !.updated_at = now]
             ELSE m : m \in @}],
       Null)

reset_mailbox_cursors(d, account_id, now) ==
    Ok([d EXCEPT !.mailboxes =
            {IF m.account_id = account_id
             THEN [m EXCEPT !.uidvalidity = Null, !.last_seen_uid = 0,
                            !.last_sync_at = NoTime, !.last_error = NoError,
                            !.updated_at = now]
             ELSE m : m \in @}],
       Cardinality({m \in d.mailboxes : m.account_id = account_id}))

\* ORDER BY imap_name ASC
RECURSIVE SortByName(_)
SortByName(rows) ==
    IF rows = {} THEN <<>>
    ELSE LET m == CHOOSE x \in rows : \A y \in rows : x.imap_name <= y.imap_name
         IN  <<m>> \o SortByName(rows \ {m})

\* A listing in the order of the row ids.
list_mailboxes_by_id(d, account_id) ==
    LET rows == {m \in d.mailboxes : m.account_id = account_id}
        ids == SortAsc({m.id : m \in rows})
    IN  [i \in 1..Len(ids) |-> CHOOSE m \in rows : m.id = ids[i]]

list_mailboxes(d, account_id) ==
    SortByName({m \in d.mailboxes : m.account_id = account_id})

----------------------------------------------------------------------------
(* Blobs and locations. *)

\* INSERT OR IGNORE INTO message_blobs: [db, changes].
InsertOrIgnoreBlob(d, blob_input) ==
    IF \E b \in d.message_blobs : b.sha256 = blob_input.sha256
    THEN [db |-> d, changes |-> 0]
    ELSE LET id == d.sqlite_sequence.message_blobs + 1
         IN  [db |-> [d EXCEPT
                        !.message_blobs = @ \cup {[id |-> id,
                              sha256 |-> blob_input.sha256,
                              raw_mime |-> blob_input.raw_mime]},
                        !.sqlite_sequence.message_blobs = id],
              changes |-> 1]

message_blob_id_by_sha256_tx(d, sha256) ==
    (CHOOSE b \in d.message_blobs : b.sha256 = sha256).id

insert_message_blob_if_absent(d, input) ==
    LET s1 == InsertOrIgnoreBlob(d, input)
    IN  Ok(s1.db, message_blob_id_by_sha256_tx(s1.db, input.sha256))

LocationAt(d, mailbox_id, uidvalidity, uid) ==
    {l \in d.message_locations :
        l.mailbox_id = mailbox_id /\ l.uidvalidity = uidvalidity /\ l.uid = uid}

\* INSERT ... ON CONFLICT(mailbox_id, uidvalidity, uid) DO UPDATE SET
\* message_blob_id = excluded.message_blob_id, ...
upsert_message_location_tx(d, input) ==
    LET existing == LocationAt(d, input.mailbox_id, input.uidvalidity, input.uid)
    IN  IF ~FkOk(d.message_blobs, input.message_blob_id) THEN Err(d)
        ELSE IF existing # {}
        THEN LET old == CHOOSE l \in existing : TRUE
                 new == [old EXCEPT !.message_blob_id = input.message_blob_id]
             IN  Ok([d EXCEPT !.message_locations = (@ \ {old}) \cup {new}], Null)
        ELSE IF ~FkOk(d.accounts, input.account_id)
                \/ ~FkOk(d.mailboxes, input.mailbox_id)
        THEN Err(d)
        ELSE Ok([d EXCEPT !.message_locations = @ \cup {input}], Null)

upsert_message_location(d, input) ==
    LET r == upsert_message_location_tx(d, input)
    IN  IF r.ok THEN r ELSE Err(d)

----------------------------------------------------------------------------
(* The event log. *)

\* Tail lookup that reads the oldest row (ORDER BY id ASC).
last_event_hash_tx_oldest(d) ==
    IF Len(d.events) = 0 THEN NoHash ELSE d.events[1].hash

\* SELECT hash FROM events ORDER BY id DESC LIMIT 1
last_event_hash_tx(d) ==
    IF Len(d.events) = 0 THEN NoHash ELSE d.events[Len(d.events)].hash

insert_event_tx(d, input) ==
    LET tail == last_event_hash_tx(d)
        prev_hash == IF tail = NoHash THEN ZeroHash ELSE tail
        hash == compute_event_hash(prev_hash, input)
        id == d.sqlite_sequence.events + 1
    IN  IF ~FkOk(d.accounts, input.account_id)
           \/ ~FkOk(d.mailboxes, input.mailbox_id)
           \/ ~FkOk(d.message_blobs, input.message_blob_id)
        THEN Err(d)
        ELSE IF \E i \in 1..Len(d.events) : d.events[i].hash = hash
        THEN Err(d)                                  \* hash TEXT NOT NULL UNIQUE
        ELSE Ok([d EXCEPT
                   !.events = Append(@, [id |-> id,
                        occurred_at |-> input.occurred_at,
                        kind |-> input.kind,
                        account_id |-> input.account_id,
                        mailbox_id |-> input.mailbox_id,
                        message_blob_id |-> input.message_blob_id,
                        detail |-> input.detail,
                        prev_hash |-> prev_hash,
                        hash |-> hash]),
                   !.sqlite_sequence.events = id],
                id)

append_event(d, input) ==
    LET r == insert_event_tx(d, input)
    IN  IF r.ok THEN r ELSE Err(d)

----------------------------------------------------------------------------
(* Atomic ingest.  fault names the statement of ingest_message at which an
   I/O error or a process exit strikes ("none": the call runs to the end). *)

IngestFaults == {"none", "insert_blob", "upsert_location", "insert_event", "commit"}

ArchivedEventInput(occurred_at, location_input, blob_id, sha256) ==
    [occurred_at |-> occurred_at,
     kind |-> EVENT_KIND_EMAIL_ARCHIVED,
     account_id |-> location_input.account_id,
     mailbox_id |-> location_input.mailbox_id,
     message_blob_id |-> blob_id,
     detail |-> JsonObject(<<JStr("sha256", ToString(sha256))>>)]

\* Every statement commits on its own: what ran before a failure stays.
ingest_message_autocommit(d, blob_input, location_input, occurred_at, fault) ==
    IF fault = "insert_blob" THEN Err(d)
    ELSE
    LET s1 == InsertOrIgnoreBlob(d, blob_input)
        blob_id == message_blob_id_by_sha256_tx(s1.db, blob_input.sha256)
        s2 == upsert_message_location_tx(s1.db,
                  [message_blob_id |-> blob_id,
                   account_id |-> location_input.account_id,
                   mailbox_id |-> location_input.mailbox_id,
                   uidvalidity |-> location_input.uidvalidity,
                   uid |-> location_input.uid])
        s3 == IF s1.changes > 0
              THEN insert_event_tx(s2.db, ArchivedEventInput(occurred_at,
                                      location_input, blob_id, blob_input.sha256))
              ELSE s2
    IN  IF fault = "upsert_location" \/ ~s2.ok THEN Err(s1.db)
        ELSE IF fault = "insert_event" \/ ~s3.ok THEN Err(s2.db)
        ELSE IF fault = "commit" THEN Err(s3.db)
        ELSE Ok(s3.db, blob_id)

\* email_archived appended on every ingest, new blob or not.
ingest_message_always_event(d, blob_input, location_input, occurred_at, fault) ==
    IF fault = "insert_blob" THEN Err(d)
    ELSE
    LET s1 == InsertOrIgnoreBlob(d, blob_input)
        blob_id == message_blob_id_by_sha256_tx(s1.db, blob_input.sha256)
        s2 == upsert_message_location_tx(s1.db,
                  [message_blob_id |-> blob_id,
                   account_id |-> location_input.account_id,
                   mailbox_id |-> location_input.mailbox_id,
                   uidvalidity |-> location_input.uidvalidity,
                   uid |-> location_input.uid])
        s3 == insert_event_tx(s2.db, ArchivedEventInput(occurred_at,
                                      location_input, blob_id, blob_input.sha256))
    IN  IF fault = "upsert_location" \/ ~s2.ok THEN Err(d)
        ELSE IF fault = "insert_event" \/ ~s3.ok THEN Err(d)
        ELSE IF fault = "commit" THEN Err(d)
        ELSE Ok(s3.db, blob_id)

\* One transaction: INSERT OR IGNORE the blob, resolve its id, upsert the
\* location, append email_archived when the blob is new, commit.  Any `?`
\* or a process exit before commit drops the transaction.
ingest_message(d, blob_input, location_input, occurred_at, fault) ==
    IF fault = "insert_blob" THEN Err(d)
    ELSE
    LET s1 == InsertOrIgnoreBlob(d, blob_input)
        blob_is_new == s1.changes > 0
        blob_id == message_blob_id_by_sha256_tx(s1.db, blob_input.sha256)
        s2 == upsert_message_location_tx(s1.db,
                  [message_blob_id |-> blob_id,
                   account_id |-> location_input.account_id,
                   mailbox_id |-> location_input.mailbox_id,
                   uidvalidity |-> location_input.uidvalidity,
                   uid |-> location_input.uid])
        s3 == IF blob_is_new
              THEN insert_event_tx(s2.db, ArchivedEventInput(occurred_at,
                                      location_input, blob_id, blob_input.sha256))
              ELSE s2
    IN  IF fault = "upsert_location" \/ ~s2.ok THEN Err(d)
        ELSE IF fault = "insert_event" \/ ~s3.ok THEN Err(d)
        ELSE IF fault = "commit" THEN Err(d)
        ELSE Ok(s3.db, blob_id)

----------------------------------------------------------------------------
(* Checkpoints and verification. *)

SyncFinishedDetail(status, messages_imported, messages_gone, root_hash, blob_count) ==
    JsonObject(<<JStr("status", status),
                 JNum("messages_imported", messages_imported),
                 JNum("messages_gone", messages_gone),
                 JStr("root_hash", root_hash),
                 JNum("blob_count", blob_count)>>)

\* Checkpoint that counts location rows instead of blob rows.
create_sync_finished_event_counts_locations(d, account_id, status, messages_imported, messages_gone, occurred_at) ==
    LET r == insert_event_tx(d,
                [occurred_at |-> occurred_at, kind |-> EVENT_KIND_SYNC_FINISHED,
                 account_id |-> account_id, mailbox_id |-> Null,
                 message_blob_id |-> Null,
                 detail |-> SyncFinishedDetail(status, messages_imported,
                               messages_gone, compute_message_blobs_root_hash(d),
                               count_rows(d, "message_locations"))])
    IN  IF r.ok THEN Ok(r.db, Null) ELSE Err(d)

create_sync_finished_event(d, account_id, status, messages_imported, messages_gone, occurred_at) ==
    LET root_hash == compute_message_blobs_root_hash(d)
        blob_count == count_rows(d, "message_blobs")
        r == insert_event_tx(d,
                [occurred_at |-> occurred_at, kind |-> EVENT_KIND_SYNC_FINISHED,
                 account_id |-> account_id, mailbox_id |-> Null,
                 message_blob_id |-> Null,
                 detail |-> SyncFinishedDetail(status, messages_imported,
                               messages_gone, root_hash, blob_count)])
    IN  IF r.ok THEN Ok(r.db, Null) ELSE Err(d)

\* The walk of verify_event_chain from row i with the running previous_hash.
RECURSIVE VerifyFrom(_, _, _)
VerifyFrom(events, i, previous_hash) ==
    IF i > Len(events)
    THEN [checked_events |-> Len(events), first_mismatch_event_id |-> Null]
    ELSE LET row == events[i]
             detail == IF row.detail = NullDetail THEN JsonObject(<<>>)
                       ELSE row.detail
             expected_hash == compute_event_hash(row.prev_hash,
                                  [row EXCEPT !.detail = detail])
         IN  IF row.prev_hash # previous_hash
             THEN [checked_events |-> i, first_mismatch_event_id |-> row.id]
             ELSE IF row.hash # expected_hash
             THEN [checked_events |-> i, first_mismatch_event_id |-> row.id]
             ELSE VerifyFrom(events, i + 1, row.hash)

\* A walk that recomputes the hashes and does not compare prev_hash with
\* the hash of the row before.
RECURSIVE VerifyHashesFrom(_, _)
VerifyHashesFrom(events, i) ==
    IF i > Len(events)
    THEN [checked_events |-> Len(events), first_mismatch_event_id |-> Null]
    ELSE LET row == events[i]
             detail == IF row.detail = NullDetail THEN JsonObject(<<>>)
                       ELSE row.detail
         IN  IF row.hash # compute_event_hash(row.prev_hash,
                                [row EXCEPT !.detail = detail])
             THEN [checked_events |-> i, first_mismatch_event_id |-> row.id]
             ELSE VerifyHashesFrom(events, i + 1)

verify_event_chain_unlinked(d) == VerifyHashesFrom(d.events, 1)

verify_event_chain(d) == VerifyFrom(d.events, 1, ZeroHash)

\* The rows (positions in id order) of the email_archived events of a blob.
ArchivedEventsOf(d, blob_id) ==
    {i \in 1..Len(d.events) :
        /\ d.events[i].kind = EVENT_KIND_EMAIL_ARCHIVED
        /\ d.events[i].message_blob_id = blob_id}

SyncFinishedRows(d) ==
    {i \in 1..Len(d.events) : d.events[i].kind = EVENT_KIND_SYNC_FINISHED}

\* Checkpoint parse that reads blob_count with as_str(): never Some.
CheckpointOf_blob_count_as_str(detail) ==
    LET root_hash == SelectSeq(JsonGet(detail, "root_hash"),
                               LAMBDA m : m.kind = "string")
        blob_count == SelectSeq(JsonGet(detail, "blob_count"),
                                LAMBDA m : m.kind = "string")
    IN  IF root_hash # <<>> /\ blob_count # <<>>
        THEN <<[root_hash |-> root_hash[1].str, blob_count |-> blob_count[1].num]>>
        ELSE <<>>

\* The checkpoint read from a chosen sync_finished row: <<>> for None,
\* <<[root_hash, blob_count]>> for Some.
CheckpointOf(detail) ==
    LET root_hash == SelectSeq(JsonGet(detail, "root_hash"),
                               LAMBDA m : m.kind = "string")
        blob_count == SelectSeq(JsonGet(detail, "blob_count"),
                                LAMBDA m : m.kind = "number" /\ m.num >= 0)
    IN  IF root_hash # <<>> /\ blob_count # <<>>
        THEN <<[root_hash |-> root_hash[1].str, blob_count |-> blob_count[1].num]>>
        ELSE <<>>

\* SELECT detail FROM events WHERE kind = 'sync_finished' ORDER BY id DESC LIMIT 1
last_sync_finished_checkpoint(d) ==
    IF SyncFinishedRows(d) = {} THEN <<>>
    ELSE CheckpointOf(d.events[CHOOSE i \in SyncFinishedRows(d) :
                                  \A j \in SyncFinishedRows(d) : i >= j].detail)

\* The comparison both verify_integrity and verify_root_hash_only make.
RootHashOk(d) ==
    LET checkpoint == last_sync_finished_checkpoint(d)
    IN  IF checkpoint = <<>> THEN TRUE
        ELSE IF checkpoint[1].root_hash # compute_message_blobs_root_hash(d)
        THEN FALSE
        ELSE IF checkpoint[1].blob_count # count_rows(d, "message_blobs")
        THEN FALSE
        ELSE TRUE

\* The issues pushed by verify_integrity and verify_root_hash_only: the
\* broken chain, then the root hash mismatch or else the blob count mismatch.
Issues(chain, d) ==
    LET checkpoint == last_sync_finished_checkpoint(d)
    IN  (IF chain.first_mismatch_event_id # Null
         THEN <<"Event hash chain broken">> ELSE <<>>)
        \o (IF checkpoint = <<>> THEN <<>>
            ELSE IF checkpoint[1].root_hash # compute_message_blobs_root_hash(d)
            THEN <<"Root hash mismatch">>
            ELSE IF checkpoint[1].blob_count # count_rows(d, "message_blobs")
            THEN <<"Blob count mismatch">>
            ELSE <<>>)

IntegrityStatus(chain, d) ==
    [ok |-> (chain.first_mismatch_event_id = Null) /\ RootHashOk(d),
     chain_ok |-> chain.first_mismatch_event_id = Null,
     chain_checked_events |-> chain.checked_events,
     chain_first_mismatch_event_id |-> chain.first_mismatch_event_id,
     root_hash_ok |-> RootHashOk(d),
     current_root_hash |-> compute_message_blobs_root_hash(d),
     current_blob_count |-> count_rows(d, "message_blobs"),
     checkpoint |-> last_sync_finished_checkpoint(d),
     issues |-> Issues(chain, d)]

verify_integrity(d) == IntegrityStatus(verify_event_chain(d), d)

verify_root_hash_only(d) ==
    IntegrityStatus([checked_events |-> 0, first_mismatch_event_id |-> Null], d)

----------------------------------------------------------------------------
(* DELETE statements against the protected tables. *)

\* BEFORE DELETE ON message_blobs: RAISE(ABORT) while the trigger exists;
\* without it the FOREIGN KEYs of locations and events still guard the row.
delete_message_blob(d, blob_id) ==
    IF ~HasRow(d.message_blobs, blob_id) THEN Ok(d, 0)
    ELSE IF "prevent_delete_message_blobs" \in d.triggers THEN Err(d)
    ELSE IF \E l \in d.message_locations : l.message_blob_id = blob_id THEN Err(d)
    ELSE IF \E i \in 1..Len(d.events) : d.events[i].message_blob_id = blob_id
    THEN Err(d)
    ELSE Ok([d EXCEPT !.message_blobs = {b \in @ : b.id # blob_id}], 1)

delete_event(d, event_id) ==
    IF ~\E i \in 1..Len(d.events) : d.events[i].id = event_id THEN Ok(d, 0)
    ELSE IF "prevent_delete_events" \in d.triggers THEN Err(d)
    ELSE Ok([d EXCEPT !.events = SelectSeq(@, LAMBDA e : e.id # event_id)], 1)

----------------------------------------------------------------------------
(* Initial state: Storage::open on a fresh file, nothing running. *)

NoSync ==
    [pc |-> "idle", account_id |-> Null, mailboxes |-> <<>>, idx |-> 0,
     current_uidvalidity |-> 0, last_seen_uid |-> 0, max_seen_uid |-> 0,
     exists |-> 0, fetched_in_mailbox |-> 0, fallback |-> FALSE,
     responses |-> 0, messages_ingested |-> 0, had_mailbox_errors |-> FALSE,
     attempted |-> {}, failed |-> {}, unrecorded |-> {},
     oversized |-> FALSE, processed |-> {}]

\* History of the external actor: how many removals, whether one is still
\* unverified (pending), whether a checkpoint existed at the removal
\* (had_checkpoint), whether the removed blob was there when the latest
\* checkpoint was recorded (checkpointed), whether no ingest and no
\* sync_finished followed the removal (fresh), and whether the status in
\* `integrity` is that of the first verify_integrity after it (verified).
NoTamper ==
    [removed |-> 0, pending |-> FALSE, had_checkpoint |-> FALSE,
     checkpointed |-> FALSE, fresh |-> FALSE, verified |-> FALSE]

\* A blob was ingested or a sync_finished event appended.
ArchiveMoved(t) == [t EXCEPT !.fresh = FALSE]

\* verify_integrity ran and its status was stored.
Verified(t) == [t EXCEPT !.verified = t.pending, !.pending = FALSE]

\* The stored status was replaced or lost.
StatusGone(t) == [t EXCEPT !.verified = FALSE]

Done(op, r, fault) == [op |-> op, ok |-> r.ok, fault |-> fault]

\* The sync operations that take AppState.sync_lock: the background cycle
\* (run_sync_all_accounts_once), sync_all_accounts_command and
\* sync_account_once_command.
SyncOps == {"background", "sync_all_accounts_command", "sync_account_once_command"}

\* No operation has been called and the mutex is unlocked (AppState::new).
NoOps == [o \in SyncOps |-> "idle"]

\* The background task before its first cycle and AppState::default: no
\* archive is configured (active_db_path is None), sync_cycle_count is 0 and
\* no call of run_sync_all_accounts_once has returned.  pc is "sleep" between
\* two cycles, "syncing" inside run_sync_all_accounts_once and "returned"
\* when the call has returned result.  cycles is history: the number of
\* cycles that synced the accounts of an archive.
NoBackground ==
    [pc |-> "sleep", sync_cycle_count |-> 0, result |-> "none",
     active_db_path |-> FALSE, cycles |-> 0, sync_in_progress |-> FALSE]

\* A folder of the account on the server: not there, selectable, or listed
\* with \NoSelect.  Besides its folders a server has the UIDs and the bodies
\* of its messages and the values SELECT can report as UIDVALIDITY (0: none
\* advertised).  With in_range a FETCH answers with one response for every
\* message of the requested range, in any order, each body within the size
\* limit; without it any response can arrive, any number of times.
FolderStates == {"absent", "selectable", "noselect"}

\* The account holds the folder INBOX only (name 1), with messages under
\* every UID and with every body.
ServerWithInbox ==
    [folders |-> [n \in MailboxNames |->
                     IF n = INBOX THEN "selectable" ELSE "absent"],
     uids |-> Uids, bodies |-> Messages,
     uid_validities |-> 0..MaxUidValidity, in_range |-> FALSE,
     any_order |-> FALSE]

\* The account holds the folder INBOX only, with one message body under
\* one UID.
ServerWithOneMessage ==
    [folders |-> [n \in MailboxNames |->
                     IF n = INBOX THEN "selectable" ELSE "absent"],
     uids |-> {1}, bodies |-> {1},
     uid_validities |-> 0..MaxUidValidity, in_range |-> FALSE,
     any_order |-> FALSE]

\* The account holds the folder INBOX only, with a message under every UID,
\* recreated at any time under another UIDVALIDITY, which is always
\* advertised; every FETCH is answered in full.
ServerWithRecreatedInbox ==
    [folders |-> [n \in MailboxNames |->
                     IF n = INBOX THEN "selectable" ELSE "absent"],
     uids |-> Uids, bodies |-> {1},
     uid_validities |-> 1..(MaxUidValidity + 1), in_range |-> TRUE,
     any_order |-> FALSE]

\* The account holds an empty INBOX.
ServerWithEmptyInbox ==
    [folders |-> [n \in MailboxNames |->
                     IF n = INBOX THEN "selectable" ELSE "absent"],
     uids |-> {}, bodies |-> {},
     uid_validities |-> 0..MaxUidValidity, in_range |-> FALSE,
     any_order |-> FALSE]

\* The account holds every folder, selectable, with one message body
\* under one UID.
ServerWithAllFolders ==
    [folders |-> [n \in MailboxNames |-> "selectable"],
     uids |-> {1}, bodies |-> {1},
     uid_validities |-> 0..MaxUidValidity, in_range |-> FALSE,
     any_order |-> FALSE]

\* The folders an account can hold: INBOX in any state, no other folder.
InboxFolders ==
    {f \in [MailboxNames -> FolderStates] :
        \A n \in MailboxNames : n # INBOX => f[n] = "absent"}

\* The account holds an empty INBOX in any state, or no folder.
ServersWithFolders ==
    {[folders |-> f, uids |-> {}, bodies |-> {},
      uid_validities |-> 0..MaxUidValidity, in_range |-> FALSE,
     any_order |-> FALSE] :
        f \in InboxFolders}

\* The folders a LIST of the account names, and the mailbox ids their rows
\* can get.
ListedNames(srv) == {n \in MailboxNames : srv.folders[n] # "absent"}

MailboxIdsOn(srv) == 1..(MaxAccounts * Cardinality(ListedNames(srv)))

\* What can go wrong in create_account_and_discover_mailboxes after the
\* account row is committed: an upsert_mailbox fails (the command returns
\* the error), the append of account_created fails (ignored), or the
\* process exits before the first upsert.
CreateAccountFaults == {"upsert_mailbox", "append_event", "exit"}

\* The storage calls of an account sync, before its checkpoint, that can
\* return an error: list_mailboxes, the update_mailbox_cursor of
\* sync_mailbox, and the update_mailbox_cursor of the error branch.
SyncFaults ==
    {"list_mailboxes", "update_mailbox_cursor", "update_mailbox_cursor_error"}

\* The connections that append_event callers have open at a time.
Connections == 1..NumConnections

\* A connection with no transaction: pc is "none"; "begun" after
\* conn.transaction(), "read" once last_event_hash_tx has read its snapshot,
\* "written" once the INSERT holds the write lock with row to commit.
NoTransaction == [pc |-> "none", input |-> <<>>, snapshot |-> <<>>, row |-> <<>>]

\* No pure function is under check.
NoCall == [op |-> "none", input |-> <<>>, output |-> <<>>]

\* No auditor package has been written.
NoPackage == <<>>

\* The outcomes an operation draws from: no failure, or one of fs that the
\* environment of this run can produce.
MayFail(fs) == {"none"} \cup (fs \cap faults)

\* The application state after Storage::open_or_create on a new file and
\* AppState::new (every variable but server, faults and call).
\* The threads that call the secret store and the secrets they store.
Callers == 1..NumCallers
SecretValues == 1..NumSecretValues

\* A thread outside the secret store; returned holds what its last call
\* returned.
NoSecretCall == [pc |-> "idle", secret |-> Null, returned |-> <<>>]

\* No keychain entry for the secret_ref, an empty SECRET_CACHE.
NoSecrets ==
    [keychain |-> Null, cache |-> Null, calls |-> [t \in Callers |-> NoSecretCall]]

InitApp ==
    /\ db = migrate
    /\ last = Done("open", Ok(migrate, Null), "none")
    /\ sync = NoSync
    /\ integrity = <<>>
    /\ returned = [m \in Messages |-> {}]
    /\ tamper = NoTamper
    /\ sync_lock = FALSE
    /\ ops = NoOps
    /\ background = NoBackground
    /\ package = NoPackage
    /\ connections = [c \in Connections |-> NoTransaction]
    /\ secrets = NoSecrets

Init ==
    /\ InitApp
    /\ call = NoCall
    /\ server = ServerWithInbox
    /\ faults = {"create_sync_finished_event"}

InitLock ==
    /\ InitApp
    /\ call = NoCall
    /\ server = ServerWithEmptyInbox
    /\ faults = {}

InitSync ==
    /\ InitApp
    /\ call = NoCall
    /\ server = ServerWithAllFolders
    /\ faults = SyncFaults

InitFolders ==
    /\ InitApp
    /\ call = NoCall
    /\ server \in ServersWithFolders
    /\ faults = CreateAccountFaults

\* The log has room for one more event (bound of the model).
Room == Len(db.events) < MaxEvents

----------------------------------------------------------------------------
(* The public storage API, called in any order with any arguments. *)

CreateAccount ==
    /\ Cardinality(db.accounts) < MaxAccounts
    /\ \E mode \in {"auto"} :
         LET r == create_account(db, mode)
         IN  /\ db' = r.db
             /\ last' = Done("create_account", r, "none")
    /\ UNCHANGED <<sync, integrity, returned, tamper, server, sync_lock, ops, faults, secrets, connections, call, package, background>>

UpsertMailbox ==
    /\ \E account_id \in AccountIds,
          imap_name \in ListedNames(server),
          sync_enabled \in {TRUE}, hard_excluded \in {FALSE},
          uidvalidity \in {Null} \cup UidValidities, now \in Clock :
         LET r == upsert_mailbox(db,
                     [account_id |-> account_id, imap_name |-> imap_name,
                      delimiter |-> "/", attributes |-> "",
                      sync_enabled |-> sync_enabled,
                      hard_excluded |-> hard_excluded,
                      uidvalidity |-> uidvalidity, last_seen_uid |-> 0],
                     now)
         IN  /\ db' = r.db
             /\ last' = Done("upsert_mailbox", r, "none")
    /\ UNCHANGED <<sync, integrity, returned, tamper, server, sync_lock, ops, faults, secrets, connections, call, package, background>>

BlobInput(m) == [sha256 |-> sha256_hex(m), raw_mime |-> m]

InsertMessageBlobIfAbsent ==
    /\ \E m \in Messages :
         LET r == insert_message_blob_if_absent(db, BlobInput(m))
         IN  /\ db' = r.db
             /\ last' = Done("insert_message_blob_if_absent", r, "none")
    /\ UNCHANGED <<sync, integrity, returned, tamper, server, sync_lock, ops, faults, secrets, connections, call, package, background>>

UpsertMessageLocation ==
    /\ \E blob_id \in BlobIds, account_id \in AccountIds,
          mailbox_id \in MailboxIdsOn(server), uidvalidity \in UidValidities,
          uid \in Uids :
         LET r == upsert_message_location(db,
                     [message_blob_id |-> blob_id, account_id |-> account_id,
                      mailbox_id |-> mailbox_id, uidvalidity |-> uidvalidity,
                      uid |-> uid])
         IN  /\ db' = r.db
             /\ last' = Done("upsert_message_location", r, "none")
    /\ UNCHANGED <<sync, integrity, returned, tamper, server, sync_lock, ops, faults, secrets, connections, call, package, background>>

IngestMessage ==
    /\ Room
    /\ \E m \in server.bodies, account_id \in AccountIds,
          mailbox_id \in MailboxIdsOn(server), uidvalidity \in UidValidities,
          uid \in server.uids, fault \in IngestFaults, now \in Clock :
         LET r == ingest_message(db, BlobInput(m),
                     [account_id |-> account_id, mailbox_id |-> mailbox_id,
                      uidvalidity |-> uidvalidity, uid |-> uid],
                     now, fault)
         IN  /\ db' = r.db
             /\ last' = Done("ingest_message", r, fault)
             /\ returned' = IF r.ok
                            THEN [returned EXCEPT ![m] = @ \cup {r.value}]
                            ELSE returned
             /\ tamper' = IF r.ok THEN ArchiveMoved(tamper) ELSE tamper
    /\ UNCHANGED <<sync, integrity, server, sync_lock, ops, faults, secrets, connections, call, package, background>>

CreateSyncFinishedEvent ==
    /\ Room
    /\ \E account_id \in AccountIds, status \in {"ok"}, now \in Clock :
         LET r == create_sync_finished_event(db, account_id, status, 0, 0, now)
         IN  /\ db' = r.db
             /\ last' = Done("create_sync_finished_event", r, "none")
             /\ tamper' = IF r.ok THEN ArchiveMoved(tamper) ELSE tamper
    /\ UNCHANGED <<sync, integrity, returned, server, sync_lock, ops, faults, secrets, connections, call, package, background>>

AppendEvent ==
    /\ Room
    /\ \E kind \in {EVENT_KIND_APP_STARTED}, account_id \in {Null},
          now \in Clock :
         LET r == append_event(db,
                     [occurred_at |-> now, kind |-> kind,
                      account_id |-> account_id, mailbox_id |-> Null,
                      message_blob_id |-> Null, detail |-> JsonObject(<<>>)])
         IN  /\ db' = r.db
             /\ last' = Done("append_event", r, "none")
    /\ UNCHANGED <<sync, integrity, returned, tamper, server, sync_lock, ops, faults, secrets, connections, call, package, background>>

\* DELETE FROM message_blobs WHERE id = ?1 on a connection of the storage layer.
DeleteMessageBlob ==
    /\ \E blob_id \in {b.id : b \in db.message_blobs} :
         LET r == delete_message_blob(db, blob_id)
         IN  /\ db' = r.db
             /\ last' = Done("delete_message_blob", r, "none")
    /\ UNCHANGED <<sync, integrity, returned, tamper, server, sync_lock, ops, faults, secrets, connections, call, package, background>>

\* DELETE FROM events WHERE id = ?1 on a connection of the storage layer.
DeleteEvent ==
    /\ \E event_id \in {db.events[i].id : i \in 1..Len(db.events)} :
         LET r == delete_event(db, event_id)
         IN  /\ db' = r.db
             /\ last' = Done("delete_event", r, "none")
    /\ UNCHANGED <<sync, integrity, returned, tamper, server, sync_lock, ops, faults, secrets, connections, call, package, background>>

NextStorage ==
    \/ CreateAccount
    \/ UpsertMailbox
    \/ InsertMessageBlobIfAbsent
    \/ UpsertMessageLocation
    \/ IngestMessage
    \/ CreateSyncFinishedEvent
    \/ AppendEvent
    \/ DeleteMessageBlob
    \/ DeleteEvent

SpecStorage == Init /\ [][NextStorage]_vars

----------------------------------------------------------------------------
(* The application: account setup, the account sync, start-up and the
   periodic integrity check.  One process; sync.pc is where it stands:
   "idle", inside sync_account_once_with_progress ("select", "fetch",
   "finish"), or "down" after a process exit. *)

MAILBOX_SELECTION_MODE_AUTO == "auto"
MAILBOX_SELECTION_MODE_MANUAL == "manual"
DEFAULT_MANUAL_SYNC_ENABLED_INBOX == TRUE

default_sync_enabled_for_mailbox(mailbox_selection_mode, imap_name, hard_excluded) ==
    IF hard_excluded THEN FALSE
    ELSE IF mailbox_selection_mode = MAILBOX_SELECTION_MODE_AUTO THEN TRUE
    ELSE IF DEFAULT_MANUAL_SYNC_ENABLED_INBOX /\ imap_name = INBOX THEN TRUE
    ELSE FALSE

\* imap::list_mailboxes: the answers LIST can give, each the names of the
\* folders the server holds; in ascending order, or with any_order in any
\* order.
list_server_mailboxes(srv) ==
    IF srv.any_order
    THEN {names \in [1..Cardinality(ListedNames(srv)) -> ListedNames(srv)] :
            \A i, j \in DOMAIN names : names[i] = names[j] => i = j}
    ELSE {SortAsc(ListedNames(srv))}

\* Only \NoSelect mailboxes are hard-excluded (no name is excluded).
is_hard_excluded_mailbox(srv, name) == srv.folders[name] = "noselect"

\* imap::name_attributes_to_string
name_attributes_to_string(srv, name) ==
    IF srv.folders[name] = "noselect" THEN "NoSelect" ELSE ""

\* upsert_mailbox for the first n names of a LIST answer, in order; enabled
\* gives the sync_enabled each upsert carries.
RECURSIVE UpsertListed(_, _, _, _, _, _, _)
UpsertListed(d, account_id, srv, names, enabled, n, now) ==
    IF n = 0 THEN d
    ELSE LET before == UpsertListed(d, account_id, srv, names, enabled, n - 1, now)
         IN  upsert_mailbox(before,
                 [account_id |-> account_id, imap_name |-> names[n],
                  delimiter |-> "/",
                  attributes |-> name_attributes_to_string(srv, names[n]),
                  sync_enabled |-> enabled[names[n]],
                  hard_excluded |-> is_hard_excluded_mailbox(srv, names[n]),
                  uidvalidity |-> Null, last_seen_uid |-> 0],
                 now).db

\* create_account_and_discover_mailboxes: LIST, create_account, one
\* upsert_mailbox per listed mailbox, then the account_created event.
CreateAccountAndDiscoverMailboxes ==
    /\ sync.pc = "idle"
    /\ Cardinality(db.accounts) < MaxAccounts
    /\ Room
    /\ \E mode \in {MAILBOX_SELECTION_MODE_AUTO, MAILBOX_SELECTION_MODE_MANUAL},
          fault \in MayFail(CreateAccountFaults), now \in Clock,
          names \in list_server_mailboxes(server) :
         LET created == create_account(db, mode)
             enabled == [name \in MailboxNames |->
                 default_sync_enabled_for_mailbox(mode, name,
                     is_hard_excluded_mailbox(server, name))]
             upserted == UpsertListed(created.db, created.value, server, names,
                             enabled,
                             IF fault = "none" \/ fault = "append_event"
                             THEN Len(names) ELSE 0, now)
             logged == append_event(upserted,
                         [occurred_at |-> now, kind |-> EVENT_KIND_ACCOUNT_CREATED,
                          account_id |-> created.value, mailbox_id |-> Null,
                          message_blob_id |-> Null,
                          detail |-> JsonObject(<<JStr("email", "a"),
                                                  JStr("imap_host", "h")>>)])
         IN  /\ fault = "upsert_mailbox" => names # <<>>
             /\ db' = IF fault = "none" THEN logged.db ELSE upserted
             /\ last' = Done("create_account_and_discover_mailboxes",
                             IF fault = "upsert_mailbox" THEN Err(db) ELSE created,
                             fault)
             /\ IF fault = "exit"
                THEN /\ sync' = [NoSync EXCEPT !.pc = "down"]
                     /\ integrity' = <<>>
                     /\ tamper' = StatusGone(tamper)
                     /\ sync_lock' = FALSE
                     /\ ops' = NoOps
                     /\ background' = NoBackground
                ELSE UNCHANGED <<sync, integrity, tamper, sync_lock, ops, background>>
    /\ UNCHANGED <<returned, server, faults, secrets, connections, call, package>>

\* The set_mailbox_sync_enabled command: the UPDATE, then the
\* mailbox_sync_changed event.
SetMailboxSyncEnabled ==
    /\ sync.pc # "down"
    /\ Room
    /\ \E mailbox \in db.mailboxes, sync_enabled \in BOOLEAN, now \in Clock :
         LET updated == set_mailbox_sync_enabled(db, mailbox.id, sync_enabled, now)
             logged == append_event(updated.db,
                         [occurred_at |-> now,
                          kind |-> EVENT_KIND_MAILBOX_SYNC_CHANGED,
                          account_id |-> mailbox.account_id,
                          mailbox_id |-> mailbox.id,
                          message_blob_id |-> Null,
                          detail |-> JsonObject(<<JStr("mailbox", ToString(mailbox.imap_name)),
                                                  JBool("sync_enabled", sync_enabled)>>)])
         IN  /\ db' = logged.db
             /\ last' = Done("set_mailbox_sync_enabled", updated, "none")
    /\ UNCHANGED <<sync, integrity, returned, tamper, server, sync_lock, ops, faults, secrets, connections, call, package, background>>

\* The folders of the account change on the server: INBOX is created or
\* deleted, or its \NoSelect attribute changes.  The application reads them in LIST
\* only, so a change during a sync is seen as a change before the next one.
ServerFoldersChange ==
    /\ sync.pc = "idle"
    /\ \E f \in InboxFolders :
         /\ f # server.folders
         /\ server' = [server EXCEPT !.folders = f]
    /\ UNCHANGED <<db, last, sync, integrity, returned, tamper, sync_lock, ops, faults, secrets, connections, call, package, background>>

\* sync_account_once_with_progress up to the mailbox loop: connect, LIST,
\* upsert every listed mailbox, list the enabled ones.  When list_mailboxes
\* fails the sync returns the storage error.
SyncAccountOnce(account) ==
    /\ sync.pc = "idle"
    /\ \E fault \in MayFail({"list_mailboxes"}), now \in Clock,
          names \in list_server_mailboxes(server) :
         LET auto_archive_new_folders ==
                 account.mailbox_selection_mode = MAILBOX_SELECTION_MODE_AUTO
             enabled == [name \in MailboxNames |->
                 ~is_hard_excluded_mailbox(server, name)
                     /\ auto_archive_new_folders]
             upserted == UpsertListed(db, account.id, server, names, enabled,
                                      Len(names), now)
             enabled_mailboxes ==
                 SelectSeq(list_mailboxes(upserted, account.id),
                           LAMBDA m : m.sync_enabled /\ ~m.hard_excluded)
         IN  /\ db' = upserted
             /\ IF fault = "none"
                THEN /\ sync' = [NoSync EXCEPT
                                   !.pc = IF enabled_mailboxes = <<>>
                                          THEN "finish" ELSE "select",
                                   !.account_id = account.id,
                                   !.mailboxes = enabled_mailboxes,
                                   !.idx = 1]
                     /\ last' = Done("sync_start", Ok(upserted, Null), "none")
                     /\ call' = [op |-> "list_mailboxes", input |-> <<>>,
                                 output |-> <<names>>]
                ELSE /\ sync' = sync
                     /\ last' = Done("sync_account_once", Err(db), fault)
                     /\ call' = NoCall
    /\ UNCHANGED <<integrity, returned, tamper, server, sync_lock, ops, faults, secrets, connections, package, background>>

\* The loop over the accounts in sync_all_accounts_inner and in
\* sync_all_accounts_command: a disabled account is skipped, every other one
\* is synced.
SyncStart ==
    \E account \in {a \in db.accounts : ~a.disabled} : SyncAccountOnce(account)

\* sync_account_once_command: the account is looked up by id in
\* list_accounts, which selects every row of accounts, and synced.
SyncAccountOnceCommand ==
    \E account_id \in AccountIds :
        IF \E a \in db.accounts : a.id = account_id
        THEN SyncAccountOnce(CHOOSE a \in db.accounts : a.id = account_id)
        ELSE /\ sync.pc = "idle"
             /\ last' = Done("sync_account_once_command", Err(db), "none")
             /\ UNCHANGED <<db, sync, integrity, returned, tamper, server,
                            sync_lock, ops, faults, secrets, connections, call, package, background>>

\* The remove_account command: the account_removed event (a failed append
\* is ignored), then set_account_disabled(account_id, true).  It takes no
\* lock, so it can run while a sync is under way.
RemoveAccount ==
    /\ sync.pc # "down"
    /\ Room
    /\ \E account_id \in AccountIds, now \in Clock :
         LET logged == append_event(db,
                         [occurred_at |-> now, kind |-> EVENT_KIND_ACCOUNT_REMOVED,
                          account_id |-> account_id, mailbox_id |-> Null,
                          message_blob_id |-> Null,
                          detail |-> JsonObject(<<JStr("email", "a")>>)])
             disabled == set_account_disabled(logged.db, account_id, TRUE)
         IN  /\ db' = disabled.db
             /\ last' = Done("remove_account", disabled, "none")
    /\ UNCHANGED <<sync, integrity, returned, tamper, server, sync_lock, ops, faults, secrets, connections, call, package, background>>

\* connect_imap_for_account or LIST fails: the sync returns the error.
SyncConnectFails ==
    /\ sync.pc = "idle"
    /\ \E account \in {a \in db.accounts : ~a.disabled} :
         last' = Done("sync_account_once", Err(db), "connect")
    /\ UNCHANGED <<db, sync, integrity, returned, tamper, server, sync_lock, ops, faults, secrets, connections, call, package, background>>

Max(a, b) == IF a > b THEN a ELSE b

Mailbox == sync.mailboxes[sync.idx]

\* Back in the loop of sync_account_once_with_progress: the next mailbox,
\* or the sync_finished step after the last one.
NextMailbox(s) ==
    [s EXCEPT !.idx = @ + 1,
              !.pc = IF s.idx + 1 > Len(s.mailboxes) THEN "finish" ELSE "select",
              !.current_uidvalidity = 0, !.exists = 0, !.last_seen_uid = 0,
              !.max_seen_uid = 0, !.fetched_in_mailbox = 0,
              !.fallback = FALSE, !.responses = 0, !.oversized = FALSE,
              !.processed = {}]

\* An error branch that leaves the mailbox loop.
MailboxFailed_aborts(err_string, partial_max_uid) ==
    \E now \in Clock :
        LET cursor_uid == IF partial_max_uid > Mailbox.last_seen_uid
                          THEN partial_max_uid ELSE Mailbox.last_seen_uid
        IN  /\ db' = update_mailbox_cursor(db, Mailbox.id, Mailbox.uidvalidity,
                                           cursor_uid, now, SomeError, now).db
            /\ sync' = [NextMailbox([sync EXCEPT
                                       !.had_mailbox_errors = TRUE,
                                       !.attempted = @ \cup {Mailbox.id},
                                       !.failed = @ \cup {Mailbox.id}])
                            EXCEPT !.pc = "finish"]
            /\ last' = Done("sync_mailbox", Err(db), err_string)

\* An error branch that stores an empty cursor.
MailboxFailed_clears_cursor(err_string, partial_max_uid) ==
    \E now \in Clock :
        /\ db' = update_mailbox_cursor(db, Mailbox.id, Null, 0, now, SomeError,
                                       now).db
        /\ sync' = NextMailbox([sync EXCEPT
                                  !.had_mailbox_errors = TRUE,
                                  !.attempted = @ \cup {Mailbox.id},
                                  !.failed = @ \cup {Mailbox.id}])
        /\ last' = Done("sync_mailbox", Err(db), err_string)

\* An error branch that stores the cursor the mailbox had.
MailboxFailed_keeps_cursor(err_string, partial_max_uid) ==
    \E now \in Clock :
        /\ db' = update_mailbox_cursor(db, Mailbox.id, Mailbox.uidvalidity,
                                       Mailbox.last_seen_uid, now, SomeError,
                                       now).db
        /\ sync' = NextMailbox([sync EXCEPT
                                  !.had_mailbox_errors = TRUE,
                                  !.attempted = @ \cup {Mailbox.id},
                                  !.failed = @ \cup {Mailbox.id}])
        /\ last' = Done("sync_mailbox", Err(db), err_string)

\* sync_mailbox returned Err((err_string, partial_max_uid)): the cursor
\* keeps the stored UIDVALIDITY and moves to the highest UID processed.
\* The result of update_mailbox_cursor is dropped: when it fails the row
\* stays as it is and the loop goes on.
MailboxFailed(err_string, partial_max_uid) ==
    \E fault \in MayFail({"update_mailbox_cursor_error"}), now \in Clock :
        LET persisted == fault = "none"
            cursor_uid == IF partial_max_uid > Mailbox.last_seen_uid
                          THEN partial_max_uid ELSE Mailbox.last_seen_uid
            r == update_mailbox_cursor(db, Mailbox.id, Mailbox.uidvalidity,
                                       cursor_uid, now, SomeError, now)
        IN  /\ db' = IF persisted THEN r.db ELSE db
            /\ sync' = NextMailbox([sync EXCEPT
                                      !.had_mailbox_errors = TRUE,
                                      !.attempted = @ \cup {Mailbox.id},
                                      !.failed = @ \cup {Mailbox.id},
                                      !.unrecorded = IF persisted THEN @
                                                     ELSE @ \cup {Mailbox.id}])
            /\ last' = Done("sync_mailbox", Err(db), err_string)

\* A sync_mailbox that stores the UIDVALIDITY the row had.
MailboxSynced_keeps_uidvalidity(current_uidvalidity, last_seen_uid) ==
    \E now \in Clock :
        /\ db' = update_mailbox_cursor(db, Mailbox.id, Mailbox.uidvalidity,
                                       last_seen_uid, now, NoError, now).db
        /\ sync' = NextMailbox([sync EXCEPT !.attempted = @ \cup {Mailbox.id}])
        /\ last' = Done("sync_mailbox", Ok(db, Null), "none")

\* sync_mailbox stores the cursor and returns Ok(()); when the update fails
\* it returns the storage error with last_seen_uid as partial progress.
MailboxSynced(current_uidvalidity, last_seen_uid) ==
    \/ \E now \in Clock :
          /\ db' = update_mailbox_cursor(db, Mailbox.id,
                      IF current_uidvalidity = 0 THEN Mailbox.uidvalidity
                      ELSE current_uidvalidity,
                      last_seen_uid, now, NoError, now).db
          /\ sync' = NextMailbox([sync EXCEPT !.attempted = @ \cup {Mailbox.id}])
          /\ last' = Done("sync_mailbox", Ok(db, Null), "none")
    \/ /\ "update_mailbox_cursor" \in faults
       /\ MailboxFailed("update_mailbox_cursor", last_seen_uid)

\* The SELECT response that sync_mailbox holds until its first FETCH or
\* its return: UIDVALIDITY (0 when not reported) and UIDNEXT (Null when not
\* reported).
selected(imap_name, uid_validity, uid_next) ==
    [op |-> "select_mailbox", input |-> <<imap_name>>,
     output |-> <<uid_validity, uid_next>>]

\* A sync_mailbox that keeps the stored cursor whatever UIDVALIDITY the
\* server reports.
SyncSelect_keeps_cursor ==
    /\ sync.pc = "select"
    /\ \/ /\ MailboxFailed("select", Mailbox.last_seen_uid)
          /\ call' = NoCall
       \/ \E uid_validity \in server.uid_validities,
             uid_next \in {Null, 1} \cup {u + 1 : u \in server.uids},
             exists \in 0..1 :
            LET current_uidvalidity == uid_validity
                last_seen_uid == Mailbox.last_seen_uid
            IN  /\ call' = selected(Mailbox.imap_name, uid_validity, uid_next)
                /\ IF /\ last_seen_uid > 0
                      /\ uid_next # Null /\ uid_next > 1
                      /\ uid_next - 1 <= last_seen_uid
                   THEN MailboxSynced(current_uidvalidity, last_seen_uid)
                   ELSE /\ sync' = [sync EXCEPT
                                      !.pc = "fetch",
                                      !.current_uidvalidity = current_uidvalidity,
                                      !.exists = exists,
                                      !.last_seen_uid = last_seen_uid,
                                      !.max_seen_uid = last_seen_uid,
                                      !.fetched_in_mailbox = 0,
                                      !.fallback = FALSE, !.responses = 0]
                        /\ last' = Done("select_mailbox", Ok(db, Null), "none")
                        /\ db' = db
    /\ UNCHANGED <<integrity, returned, tamper, server, sync_lock, ops, faults, secrets, connections, package, background>>

\* A sync_mailbox that takes the short-circuit on any reported UIDNEXT.
SyncSelect_trusts_uidnext ==
    /\ sync.pc = "select"
    /\ \/ /\ MailboxFailed("select", Mailbox.last_seen_uid)
          /\ call' = NoCall
       \/ \E uid_validity \in server.uid_validities,
             uid_next \in {Null, 1} \cup {u + 1 : u \in server.uids},
             exists \in 0..1 :
            LET current_uidvalidity == uid_validity
                last_seen_uid ==
                    IF /\ Mailbox.uidvalidity # Null
                       /\ current_uidvalidity # 0
                       /\ Mailbox.uidvalidity # current_uidvalidity
                    THEN 0 ELSE Mailbox.last_seen_uid
            IN  /\ call' = selected(Mailbox.imap_name, uid_validity, uid_next)
                /\ IF /\ last_seen_uid > 0
                      /\ uid_next # Null
                      /\ uid_next - 1 <= last_seen_uid
                   THEN MailboxSynced(current_uidvalidity, last_seen_uid)
                   ELSE /\ sync' = [sync EXCEPT
                                      !.pc = "fetch",
                                      !.current_uidvalidity = current_uidvalidity,
                                      !.exists = exists,
                                      !.last_seen_uid = last_seen_uid,
                                      !.max_seen_uid = last_seen_uid,
                                      !.fetched_in_mailbox = 0,
                                      !.fallback = FALSE, !.responses = 0]
                        /\ last' = Done("select_mailbox", Ok(db, Null), "none")
                        /\ db' = db
    /\ UNCHANGED <<integrity, returned, tamper, server, sync_lock, ops, faults, secrets, connections, package, background>>

\* sync_mailbox: SELECT, the UIDVALIDITY comparison and the UIDNEXT
\* short-circuit.
SyncSelect ==
    /\ sync.pc = "select"
    /\ \/ /\ MailboxFailed("select", Mailbox.last_seen_uid)
          /\ call' = NoCall
       \/ \E uid_validity \in server.uid_validities,
             uid_next \in {Null, 1} \cup {u + 1 : u \in server.uids},
             exists \in 0..1 :
            LET current_uidvalidity == uid_validity
                last_seen_uid ==
                    IF /\ Mailbox.uidvalidity # Null
                       /\ current_uidvalidity # 0
                       /\ Mailbox.uidvalidity # current_uidvalidity
                    THEN 0 ELSE Mailbox.last_seen_uid
            IN  /\ call' = selected(Mailbox.imap_name, uid_validity, uid_next)
                /\ IF /\ last_seen_uid > 0
                      /\ uid_next # Null /\ uid_next > 1
                      /\ uid_next - 1 <= last_seen_uid
                   THEN MailboxSynced(current_uidvalidity, last_seen_uid)
                   ELSE /\ sync' = [sync EXCEPT
                                      !.pc = "fetch",
                                      !.current_uidvalidity = current_uidvalidity,
                                      !.exists = exists,
                                      !.last_seen_uid = last_seen_uid,
                                      !.max_seen_uid = last_seen_uid,
                                      !.fetched_in_mailbox = 0,
                                      !.fallback = FALSE, !.responses = 0]
                        /\ last' = Done("select_mailbox", Ok(db, Null), "none")
                        /\ db' = db
    /\ UNCHANGED <<integrity, returned, tamper, server, sync_lock, ops, faults, secrets, connections, package, background>>

\* The UIDs the next FETCH response of the stream can carry: with in_range
\* those of the range "{start_uid}:*" (of UID SEARCH ALL in the fallback)
\* that no response has carried yet.
Responses(srv, s) ==
    IF srv.in_range
    THEN {uid \in srv.uids : uid > s.last_seen_uid /\ uid \notin s.processed}
    ELSE srv.uids

\* One FETCH response of the stream (primary range or fallback batch): a
\* stream error, a response without UID or without body, an oversized body
\* that is skipped, or a message that is ingested.
SyncFetch ==
    /\ sync.pc = "fetch"
    /\ sync.responses < Cardinality(server.uids)
    /\ \/ /\ \E kind \in {"error", "no_uid", "no_body"} :
               MailboxFailed(kind, sync.max_seen_uid)
          /\ UNCHANGED <<returned, tamper>>
       \/ /\ ~server.in_range
          /\ \E uid \in server.uids :
               sync' = [sync EXCEPT !.max_seen_uid = Max(@, uid),
                                    !.responses = @ + 1,
                                    !.oversized = TRUE,
                                    !.processed = @ \cup {uid}]
          /\ last' = Done("fetch", Ok(db, Null), "oversize")
          /\ UNCHANGED <<db, returned, tamper>>
       \/ /\ Room
          /\ \E uid \in Responses(server, sync), m \in server.bodies,
                fault \in IngestFaults, now \in Clock :
               LET r == ingest_message(db, BlobInput(m),
                           [account_id |-> sync.account_id,
                            mailbox_id |-> Mailbox.id,
                            uidvalidity |-> sync.current_uidvalidity,
                            uid |-> uid],
                           now, fault)
               IN  IF r.ok
                   THEN /\ db' = r.db
                        /\ sync' = [sync EXCEPT
                                      !.messages_ingested = @ + 1,
                                      !.fetched_in_mailbox = @ + 1,
                                      !.max_seen_uid = Max(@, uid),
                                      !.responses = @ + 1,
                                      !.processed = @ \cup {uid}]
                        /\ last' = Done("ingest_message", r, fault)
                        /\ returned' = [returned EXCEPT ![m] = @ \cup {r.value}]
                        /\ tamper' = ArchiveMoved(tamper)
                   ELSE /\ MailboxFailed("ingest_message", sync.max_seen_uid)
                        /\ UNCHANGED <<returned, tamper>>
    /\ call' = NoCall
    /\ UNCHANGED <<integrity, server, sync_lock, ops, faults, secrets, connections, package, background>>

\* The stream ended: UID SEARCH ALL fallback on a first sync that fetched
\* nothing, the zero-fetch check, then the cursor.
SyncFetchEnd ==
    /\ sync.pc = "fetch"
    /\ server.in_range => Responses(server, sync) = {}
    /\ IF sync.last_seen_uid = 0 /\ sync.fetched_in_mailbox = 0 /\ ~sync.fallback
       THEN \/ MailboxFailed("uid_search", sync.max_seen_uid)
            \/ /\ sync' = [sync EXCEPT !.fallback = TRUE, !.responses = 0]
               /\ last' = Done("uid_search", Ok(db, Null), "none")
               /\ db' = db
       ELSE IF sync.last_seen_uid = 0 /\ sync.exists > 0
               /\ sync.fetched_in_mailbox = 0
       THEN MailboxFailed("fetched_0_messages", sync.max_seen_uid)
       ELSE MailboxSynced(sync.current_uidvalidity, sync.max_seen_uid)
    /\ call' = NoCall
    /\ UNCHANGED <<integrity, returned, tamper, server, sync_lock, ops, faults, secrets, connections, package, background>>

\* A sync_finished step whose status does not look at the mailbox errors.
SyncFinish_status_ok ==
    /\ sync.pc = "finish"
    /\ \E fault \in MayFail({"create_sync_finished_event"}), now \in Clock :
         LET io_error == fault # "none"
             status == "ok"
             r == create_sync_finished_event(db, sync.account_id, status,
                      sync.messages_ingested, 0, now)
         IN  IF io_error \/ ~r.ok
             THEN /\ io_error \/ Room
                  /\ db' = db
                  /\ last' = Done("sync_account_once", Err(db),
                                  "create_sync_finished_event")
                  /\ tamper' = tamper
             ELSE /\ Room
                  /\ db' = r.db
                  /\ last' = Done("sync_account_once", r, "none")
                  /\ tamper' = ArchiveMoved(tamper)
    /\ sync' = NoSync
    /\ call' = NoCall
    /\ UNCHANGED <<integrity, returned, server, sync_lock, ops, faults, secrets, connections, package, background>>

\* A sync that writes its checkpoint and goes through its mailboxes again.
SyncFinish_then_mailboxes ==
    /\ sync.pc = "finish"
    /\ \E fault \in MayFail({"create_sync_finished_event"}), now \in Clock :
         LET io_error == fault # "none"
             status == IF sync.had_mailbox_errors THEN "partial" ELSE "ok"
             r == create_sync_finished_event(db, sync.account_id, status,
                      sync.messages_ingested, 0, now)
         IN  IF io_error \/ ~r.ok
             THEN /\ io_error \/ Room
                  /\ db' = db
                  /\ last' = Done("sync_account_once", Err(db),
                                  "create_sync_finished_event")
                  /\ tamper' = tamper
             ELSE /\ Room
                  /\ db' = r.db
                  /\ last' = Done("sync_account_once", r, "none")
                  /\ tamper' = ArchiveMoved(tamper)
    /\ sync' = IF sync.mailboxes = <<>> THEN NoSync
               ELSE [sync EXCEPT !.pc = "select", !.idx = 1]
    /\ call' = NoCall
    /\ UNCHANGED <<integrity, returned, server, sync_lock, ops, faults, secrets, connections, package, background>>

\* After the mailbox loop: the sync_finished checkpoint.  When the append
\* fails the sync returns the storage error.
SyncFinish ==
    /\ sync.pc = "finish"
    /\ \E fault \in MayFail({"create_sync_finished_event"}), now \in Clock :
         LET io_error == fault # "none"
             status == IF sync.had_mailbox_errors THEN "partial" ELSE "ok"
             r == create_sync_finished_event(db, sync.account_id, status,
                      sync.messages_ingested, 0, now)
         IN  IF io_error \/ ~r.ok
             THEN /\ io_error \/ Room
                  /\ db' = db
                  /\ last' = Done("sync_account_once", Err(db),
                                  "create_sync_finished_event")
                  /\ tamper' = tamper
             ELSE /\ Room
                  /\ db' = r.db
                  /\ last' = Done("sync_account_once", r, "none")
                  /\ tamper' = ArchiveMoved(tamper)
    /\ sync' = NoSync
    /\ call' = NoCall
    /\ UNCHANGED <<integrity, returned, server, sync_lock, ops, faults, secrets, connections, package, background>>

\* The process exits (crash, kill, power loss) wherever it stands; open
\* transactions are rolled back, memory is lost.
ProcessExit ==
    /\ sync.pc # "down"
    /\ sync' = [NoSync EXCEPT !.pc = "down"]
    /\ integrity' = <<>>
    /\ last' = Done("process_exit", Ok(db, Null), "none")
    /\ tamper' = StatusGone(tamper)
    /\ sync_lock' = FALSE
    /\ ops' = NoOps
    /\ background' = NoBackground
    /\ UNCHANGED <<db, returned, server, faults, secrets, connections, call, package>>

\* The event a check records: integrity_check when ok, tampering_detected
\* otherwise.  check_kind is "" at start-up, "full" or "quick" afterwards.
IntegrityEvent(status, check_kind, occurred_at) ==
    LET kind_member == IF check_kind = "" THEN <<>>
                       ELSE <<JStr("kind", check_kind)>>
    IN  [occurred_at |-> occurred_at,
         kind |-> IF status.ok THEN EVENT_KIND_INTEGRITY_CHECK
                  ELSE EVENT_KIND_TAMPERING_DETECTED,
         account_id |-> Null, mailbox_id |-> Null, message_blob_id |-> Null,
         detail |-> IF status.ok
                    THEN JsonObject(<<JStr("result", "ok")>> \o kind_member)
                    ELSE JsonObject(kind_member \o
                             <<JBool("chain_ok", status.chain_ok),
                               JBool("root_hash_ok", status.root_hash_ok),
                               JArr("issues", status.issues)>>)]

\* The set_active_db_path command: the path is stored, then
\* record_startup_and_detect_gaps (app_started and, after a long gap,
\* coverage_gap), then verify_integrity_at_startup.
set_active_db_path ==
    /\ \E gap \in BOOLEAN, now \in Clock :
         LET started == append_event(db,
                            [occurred_at |-> now, kind |-> EVENT_KIND_APP_STARTED,
                             account_id |-> Null, mailbox_id |-> Null,
                             message_blob_id |-> Null,
                             detail |-> JsonObject(<<JNum("v", 1)>>)]).db
             gapped == IF gap
                       THEN append_event(started,
                                [occurred_at |-> now, kind |-> "coverage_gap",
                                 account_id |-> Null, mailbox_id |-> Null,
                                 message_blob_id |-> Null,
                                 detail |-> JsonObject(<<JNum("v", 1)>>)]).db
                       ELSE started
             status == verify_integrity(gapped)
         IN  /\ Len(db.events) + (IF gap THEN 3 ELSE 2) <= MaxEvents
             /\ db' = append_event(gapped, IntegrityEvent(status, "", now)).db
             /\ integrity' = <<status>>
             /\ last' = Done("verify_integrity", Ok(db, Null), "none")
    /\ tamper' = Verified(tamper)
    /\ background' = [background EXCEPT !.active_db_path = TRUE]

\* Application start: the process comes up and the UI calls
\* set_active_db_path with the archive it finds.
Startup ==
    /\ sync.pc = "down"
    /\ set_active_db_path
    /\ sync' = NoSync
    /\ UNCHANGED <<returned, server, sync_lock, ops, faults, secrets, connections, call, package>>

\* set_active_db_path called while the application runs.
SetActiveDbPath ==
    /\ sync.pc # "down"
    /\ set_active_db_path
    /\ UNCHANGED <<sync, returned, server, sync_lock, ops, faults, secrets, connections, call, package>>

\* The clear_active_db_path command.
ClearActiveDbPath ==
    /\ sync.pc # "down"
    /\ background.active_db_path
    /\ background' = [background EXCEPT !.active_db_path = FALSE]
    /\ UNCHANGED <<db, last, sync, integrity, returned, tamper, server,
                   sync_lock, ops, faults, secrets, connections, call, package>>

\* run_periodic_integrity_check with an archive configured: full
\* (verify_integrity) or quick (verify_root_hash_only), the status stored
\* and recorded.
run_periodic_integrity_check(run_full_chain) ==
    \E now \in Clock :
         LET status == IF run_full_chain THEN verify_integrity(db)
                       ELSE verify_root_hash_only(db)
             check_kind == IF run_full_chain THEN "full" ELSE "quick"
         IN  /\ db' = append_event(db, IntegrityEvent(status, check_kind, now)).db
             /\ integrity' = <<status>>
             /\ last' = Done(IF run_full_chain THEN "verify_integrity"
                             ELSE "verify_root_hash_only", Ok(db, Null), "none")
             /\ tamper' = IF run_full_chain THEN Verified(tamper)
                          ELSE StatusGone(tamper)

\* run_periodic_integrity_check after a sync cycle: full or quick.
PeriodicIntegrityCheck ==
    /\ sync.pc = "idle"
    /\ Room
    /\ \E run_full_chain \in BOOLEAN : run_periodic_integrity_check(run_full_chain)
    /\ UNCHANGED <<sync, returned, server, sync_lock, ops, faults, secrets, connections, call, package, background>>

NextSystem ==
    \/ CreateAccountAndDiscoverMailboxes
    \/ SyncStart
    \/ SyncConnectFails
    \/ SyncSelect
    \/ SyncFetch
    \/ SyncFetchEnd
    \/ SyncFinish
    \/ ProcessExit
    \/ Startup
    \/ PeriodicIntegrityCheck

SpecSystem == Init /\ [][NextSystem]_vars

\* The same operations on an archive whose account_created event could not be
\* appended (create_account_and_discover_mailboxes ignores the failure) and
\* whose server holds one message.
InitChecks ==
    /\ InitApp
    /\ call = NoCall
    /\ server = ServerWithOneMessage
    /\ faults = {"create_sync_finished_event", "append_event"}

SpecChecks == InitChecks /\ [][NextSystem]_vars

-----------------------------------------------------------------------------
(* The mailbox rows under the storage calls that write them, with every
   value a call can carry and a clock of several readings. *)

MailboxClock == 0..MaxMailboxClock

\* Storage::upsert_mailbox with any input; the attributes text goes with
\* the exclusion, as both come from one LIST entry.
UpsertMailboxAnyInput ==
    /\ \E account_id \in AccountIds, imap_name \in ListedNames(server),
          delimiter \in {"/", "."},
          sync_enabled \in BOOLEAN, hard_excluded \in BOOLEAN,
          uidvalidity \in {Null} \cup UidValidities, last_seen_uid \in {0, MaxUid},
          now \in MailboxClock :
         LET r == upsert_mailbox(db,
                     [account_id |-> account_id, imap_name |-> imap_name,
                      delimiter |-> delimiter,
                      attributes |-> IF hard_excluded THEN "NoSelect" ELSE "",
                      sync_enabled |-> sync_enabled,
                      hard_excluded |-> hard_excluded,
                      uidvalidity |-> uidvalidity,
                      last_seen_uid |-> last_seen_uid],
                     now)
         IN  /\ db' = r.db
             /\ last' = Done("upsert_mailbox", r, "none")
    /\ UNCHANGED <<sync, integrity, returned, tamper, server, sync_lock, ops, faults, secrets, connections, call, package, background>>

\* Storage::update_mailbox_cursor with any input.
UpdateMailboxCursor ==
    /\ \E m \in db.mailboxes, uidvalidity \in {Null} \cup UidValidities,
          last_seen_uid \in {0, MaxUid}, timed \in BOOLEAN,
          last_error \in {NoError, SomeError}, now \in MailboxClock :
         LET r == update_mailbox_cursor(db, m.id, uidvalidity, last_seen_uid,
                                        IF timed THEN now ELSE NoTime,
                                        last_error, now)
         IN  /\ db' = r.db
             /\ last' = Done("update_mailbox_cursor", r, "none")
    /\ UNCHANGED <<sync, integrity, returned, tamper, server, sync_lock, ops, faults, secrets, connections, call, package, background>>

NextMailboxRows ==
    \/ CreateAccount
    \/ UpsertMailboxAnyInput
    \/ UpdateMailboxCursor

SpecMailbox == Init /\ [][NextMailboxRows]_vars

-----------------------------------------------------------------------------
(* The account sync over an account of several folders, with storage calls
   of the sync that can fail. *)

NextSync ==
    \/ CreateAccountAndDiscoverMailboxes
    \/ SyncStart
    \/ SyncConnectFails
    \/ SyncSelect
    \/ SyncFetch
    \/ SyncFetchEnd
    \/ SyncFinish

SpecSync == InitSync /\ [][NextSync]_vars

-----------------------------------------------------------------------------
(* The background task: start_background_sync runs run_sync_all_accounts_once
   in a loop and, when the call returned Ok, counts the cycle and runs
   run_periodic_integrity_check, full every FULL_VERIFICATION_EVERY_N_CYCLES
   counted cycles.  The archive is configured and cleared by the UI. *)

FULL_VERIFICATION_EVERY_N_CYCLES == 10

\* The top of a loop iteration: run_sync_all_accounts_once reads
\* active_db_path and returns Ok("not configured") when there is none;
\* otherwise it takes sync_lock and sync_all_accounts_inner lists the
\* accounts, returning Err when that fails.
RunSyncAllAccountsOnce ==
    /\ sync.pc = "idle"
    /\ background.pc = "sleep"
    /\ background.sync_cycle_count < MaxCycles
    /\ background.cycles < MaxCycles
    /\ IF ~background.active_db_path
       THEN /\ background' = [background EXCEPT !.pc = "returned",
                                                !.result = "not configured"]
            /\ sync_lock' = sync_lock
       ELSE /\ ~sync_lock
            /\ \E fault \in MayFail({"list_accounts"}) :
                 IF fault = "none"
                 THEN /\ background' = [background EXCEPT
                                            !.pc = "syncing",
                                            !.sync_in_progress = TRUE]
                      /\ sync_lock' = TRUE
                 ELSE /\ background' = [background EXCEPT !.pc = "returned",
                                            !.result = "err",
                                            !.cycles = @ + 1]
                      /\ sync_lock' = sync_lock
    /\ UNCHANGED <<db, last, sync, integrity, returned, tamper, server, ops, faults, secrets, connections, call, package>>

\* sync_all_accounts_inner: the syncs of the accounts, under the guard.
SyncAllAccountsInner ==
    /\ background.pc = "syncing"
    /\ \/ SyncStart
       \/ SyncConnectFails
       \/ SyncSelect
       \/ SyncFetchEnd
       \/ SyncFinish

\* run_sync_all_accounts_once returns Ok after the loop over the accounts
\* (an account whose sync failed is counted in accounts_with_errors); the
\* guard is dropped.
RunSyncAllAccountsOnceReturns ==
    /\ background.pc = "syncing"
    /\ sync.pc = "idle"
    /\ background' = [background EXCEPT !.pc = "returned", !.result = "ok",
                                        !.cycles = @ + 1,
                                        !.sync_in_progress = FALSE]
    /\ sync_lock' = FALSE
    /\ UNCHANGED <<db, last, sync, integrity, returned, tamper, server, ops, faults, secrets, connections, call, package>>

\* The rest of the iteration with a check every cycle, whatever the call
\* returned, and the kind taken from the number of cycles that synced.
AfterSyncCycle_counts_every_cycle ==
    /\ background.pc = "returned"
    /\ IF background.active_db_path
       THEN /\ run_periodic_integrity_check(
                   background.cycles % FULL_VERIFICATION_EVERY_N_CYCLES = 0)
            /\ UNCHANGED <<sync, returned, server, sync_lock, ops, faults, secrets, connections, call, package>>
       ELSE UNCHANGED <<db, last, sync, integrity, returned, tamper, server,
                        sync_lock, ops, faults, secrets, connections, call, package>>
    /\ background' = [background EXCEPT !.pc = "sleep",
                         !.sync_cycle_count = @ + 1]

\* The rest of the iteration: if result.is_ok() the cycle is counted and
\* run_periodic_integrity_check is called, which returns at once when no
\* archive is configured; then the task sleeps.
AfterSyncCycle ==
    /\ background.pc = "returned"
    /\ LET is_ok == background.result # "err"
           sync_cycle_count == background.sync_cycle_count + 1
           run_full == sync_cycle_count % FULL_VERIFICATION_EVERY_N_CYCLES = 0
       IN  /\ IF is_ok /\ background.active_db_path
              THEN /\ run_periodic_integrity_check(run_full)
                   /\ UNCHANGED <<sync, returned, server, sync_lock, ops, faults, secrets, connections, call, package>>
              ELSE UNCHANGED <<db, last, sync, integrity, returned, tamper,
                               server, sync_lock, ops, faults, secrets, connections, call, package>>
           /\ background' = [background EXCEPT !.pc = "sleep",
                                !.sync_cycle_count =
                                    IF is_ok THEN sync_cycle_count ELSE @]

InitBackground ==
    /\ InitApp
    /\ call = NoCall
    /\ server = ServerWithEmptyInbox
    /\ faults = {"list_accounts"}

NextBackground ==
    \/ CreateAccountAndDiscoverMailboxes
    \/ SetActiveDbPath
    \/ ClearActiveDbPath
    \/ RunSyncAllAccountsOnce
    \/ SyncAllAccountsInner
    \/ RunSyncAllAccountsOnceReturns
    \/ AfterSyncCycle

SpecBackground == InitBackground /\ [][NextBackground]_vars

-----------------------------------------------------------------------------
(* Accounts that are removed: the remove_account command between and during
   the syncs of the background cycle, of sync_all_accounts_command and of
   sync_account_once_command. *)

NextAccounts ==
    \/ CreateAccountAndDiscoverMailboxes
    \/ RemoveAccount
    \/ SyncStart
    \/ SyncAccountOnceCommand
    \/ SyncConnectFails
    \/ SyncSelect
    \/ SyncFetch
    \/ SyncFetchEnd
    \/ SyncFinish

SpecAccounts == Init /\ [][NextAccounts]_vars

-----------------------------------------------------------------------------
(* The auditor export over an archive filled through the storage API. *)

EVENT_KIND_DOCUMENTATION_GENERATED == "documentation_generated"
EVENT_KIND_AUDITOR_EXPORT == "auditor_export"

\* ORDER BY a.id ASC, m.imap_name ASC, ml.uid ASC; rows equal in these are
\* taken in the order of their uidvalidity.
IndexRowBefore(x, y) ==
    \/ x.account_id < y.account_id
    \/ /\ x.account_id = y.account_id
       /\ \/ x.mailbox_name < y.mailbox_name
          \/ /\ x.mailbox_name = y.mailbox_name
             /\ \/ x.uid < y.uid
                \/ x.uid = y.uid /\ x.uidvalidity <= y.uidvalidity

RECURSIVE SortIndexRows(_)
SortIndexRows(rows) ==
    IF rows = {} THEN <<>>
    ELSE LET m == CHOOSE x \in rows : \A y \in rows : IndexRowBefore(x, y)
         IN  <<m>> \o SortIndexRows(rows \ {m})

\* message_locations joined with message_blobs, mailboxes and accounts.
list_auditor_index_rows(d) ==
    SortIndexRows(
        {[account_id |-> a.id, mailbox_name |-> m.imap_name,
          uidvalidity |-> ml.uidvalidity, uid |-> ml.uid,
          message_blob_id |-> mb.id, sha256 |-> mb.sha256] :
            <<ml, mb, m, a>> \in
                {t \in d.message_locations \X d.message_blobs
                          \X d.mailboxes \X d.accounts :
                    /\ t[2].id = t[1].message_blob_id
                    /\ t[3].id = t[1].mailbox_id
                    /\ t[4].id = t[1].account_id}})

\* SELECT ... FROM events ORDER BY id ASC
list_events_for_export(d) == d.events

create_proof_snapshot(d, created_at) ==
    [created_at |-> created_at,
     last_event_id |-> IF d.events = <<>> THEN Null
                       ELSE d.events[Len(d.events)].id,
     last_event_hash |-> last_event_hash_tx(d),
     accounts_count |-> count_rows(d, "accounts"),
     mailboxes_count |-> count_rows(d, "mailboxes"),
     message_blobs_count |-> count_rows(d, "message_blobs"),
     message_locations_count |-> count_rows(d, "message_locations"),
     events_count |-> count_rows(d, "events"),
     message_blobs_root_hash |-> compute_message_blobs_root_hash(d)]

\* The entries messages/<sha256>.eml, one per blob in id order.
RECURSIVE MessageEntries(_, _)
MessageEntries(d, ids) ==
    IF ids = <<>> THEN <<>>
    ELSE LET blob == CHOOSE b \in d.message_blobs : b.id = Head(ids)
         IN  <<[path |-> blob.sha256, raw_mime |-> blob.raw_mime]>>
                 \o MessageEntries(d, Tail(ids))

\* ensure_verfahrensdokumentation: the document is refreshed and a
\* documentation_generated event appended (a failed append is ignored).
ensure_verfahrensdokumentation(d, now) ==
    append_event(d, [occurred_at |-> now,
                     kind |-> EVENT_KIND_DOCUMENTATION_GENERATED,
                     account_id |-> Null, mailbox_id |-> Null,
                     message_blob_id |-> Null,
                     detail |-> JsonObject(<<JNum("v", 1)>>)]).db

\* export_auditor_package_to_path: the documentation is refreshed, the
\* snapshot, the index, the events and the blobs are read and written to
\* the zip, then the auditor_export event is appended (a failed append is
\* ignored).
ExportAuditorPackage ==
    /\ sync.pc # "down"
    /\ Cardinality({i \in 1..Len(db.events) :
                       db.events[i].kind = EVENT_KIND_AUDITOR_EXPORT}) < MaxExports
    /\ \E now \in Clock :
         LET documented == ensure_verfahrensdokumentation(db, now)
         IN  /\ package' =
                   <<[index_csv |-> list_auditor_index_rows(documented),
                      events_jsonl |-> list_events_for_export(documented),
                      proof_snapshot |-> create_proof_snapshot(documented, now),
                      messages |-> MessageEntries(documented,
                                      SortAsc({b.id : b \in documented.message_blobs}))]>>
             /\ db' = append_event(documented,
                        [occurred_at |-> now, kind |-> EVENT_KIND_AUDITOR_EXPORT,
                         account_id |-> Null, mailbox_id |-> Null,
                         message_blob_id |-> Null,
                         detail |-> JsonObject(<<JNum("v", 1)>>)]).db
             /\ last' = Done("export_auditor_package", Ok(db, Null), "none")
    /\ UNCHANGED <<sync, integrity, returned, tamper, server, sync_lock, ops,
                   faults, secrets, connections, call, background>>

NextExport ==
    \/ CreateAccount
    \/ UpsertMailbox
    \/ IngestMessage
    \/ ExportAuditorPackage

SpecExport == Init /\ [][NextExport]_vars

-----------------------------------------------------------------------------
(* The full-text query compiler.  A text is the sequence of its characters;
   the characters of the model are two letters (which spell the keyword OR),
   the blank, the double quote, the operator character * that the compiler
   drops, and the hyphen that it keeps inside a token. *)

Alphanumeric == {"O", "R"}
Whitespace == {" "}
QueryChars == Alphanumeric \cup Whitespace \cup {"\"", "*", "-"}

\* The characters normalize_fts5_token keeps besides the alphanumeric ones.
KeptPunctuation == {"@", ".", "_", "-", "+", "/", "\\", ":"}

Queries == UNION {[1..n -> QueryChars] : n \in 0..MaxQueryLen}

\* str::split_whitespace: the maximal runs of non-blank characters.
RECURSIVE split_whitespace(_, _)
split_whitespace(text, word) ==
    IF text = <<>> THEN (IF word = <<>> THEN <<>> ELSE <<word>>)
    ELSE IF Head(text) \in Whitespace
    THEN (IF word = <<>> THEN <<>> ELSE <<word>>)
             \o split_whitespace(Tail(text), <<>>)
    ELSE split_whitespace(Tail(text), Append(word, Head(text)))

\* str::trim_matches(|c| !c.is_alphanumeric())
RECURSIVE trim_matches(_)
trim_matches(text) ==
    IF text = <<>> THEN <<>>
    ELSE IF Head(text) \notin Alphanumeric THEN trim_matches(Tail(text))
    ELSE IF text[Len(text)] \notin Alphanumeric
    THEN trim_matches(SubSeq(text, 1, Len(text) - 1))
    ELSE text

\* str::replace('"', "\"\"")
RECURSIVE DoubleQuotes(_)
DoubleQuotes(text) ==
    IF text = <<>> THEN <<>>
    ELSE (IF Head(text) = "\"" THEN <<"\"", "\"">> ELSE <<Head(text)>>)
             \o DoubleQuotes(Tail(text))

\* The token emitted without the surrounding double quotes.
normalize_fts5_token_unquoted(token) ==
    LET normalized == trim_matches(token)
    IN  IF normalized = <<>> THEN <<>>
        ELSE <<normalized \o <<"*">>>>

\* None is <<>>, Some(t) is <<t>>.
normalize_fts5_token(token) ==
    LET filtered == SelectSeq(token,
                        LAMBDA c : c \in Alphanumeric \/ c \in KeptPunctuation)
        normalized == trim_matches(filtered)
        escaped == DoubleQuotes(normalized)
    IN  IF normalized = <<>> THEN <<>>
        ELSE <<(<<"\"">> \o escaped \o <<"\"", "*">>)>>

\* filter_map(normalize_fts5_token) over the words.
RECURSIVE NormalizeAll(_)
NormalizeAll(words) ==
    IF words = <<>> THEN <<>>
    ELSE normalize_fts5_token(Head(words)) \o NormalizeAll(Tail(words))

\* tokens.join(" AND ")
RECURSIVE JoinAnd(_)
JoinAnd(tokens) ==
    IF Len(tokens) = 1 THEN tokens[1]
    ELSE tokens[1] \o <<" ", "A", "N", "D", " ">> \o JoinAnd(Tail(tokens))

\* None is <<>>, Some(q) is <<q>>.
build_fts5_query(user_query) ==
    LET tokens == NormalizeAll(split_whitespace(user_query, <<>>))
    IN  IF tokens = <<>> THEN <<>> ELSE <<JoinAnd(tokens)>>

InitFts ==
    /\ InitApp
    /\ server = ServerWithEmptyInbox
    /\ faults = {}
    /\ \E user_query \in Queries :
         call = [op |-> "none", input |-> user_query, output |-> <<>>]

BuildFts5Query ==
    /\ call.op = "none"
    /\ call' = [call EXCEPT !.op = "build_fts5_query",
                            !.output = build_fts5_query(call.input)]
    /\ UNCHANGED <<db, last, sync, integrity, returned, tamper, server,
                   sync_lock, ops, faults, secrets, connections, background, package>>

NextFts == BuildFts5Query

SpecFts == InitFts /\ [][NextFts]_vars

-----------------------------------------------------------------------------
(* The resume cursor of a mailbox whose server answers every FETCH in full,
   in any UID order, and recreates the mailbox under another UIDVALIDITY at
   any time; the stream can break after any response and the process can
   exit anywhere. *)

NextCursor ==
    \/ CreateAccountAndDiscoverMailboxes
    \/ SyncStart
    \/ SyncConnectFails
    \/ SyncSelect
    \/ SyncFetch
    \/ SyncFetchEnd
    \/ SyncFinish
    \/ ProcessExit
    \/ Startup

InitCursor ==
    /\ InitApp
    /\ call = NoCall
    /\ server = ServerWithRecreatedInbox
    /\ faults = {}

SpecCursor == InitCursor /\ [][NextCursor]_vars

-----------------------------------------------------------------------------
(* append_event called by several tasks at a time.  Every call opens its own
   connection (open_connection) in WAL mode and a deferred transaction: the
   SELECT of last_event_hash_tx starts a read transaction on the snapshot of
   that moment, the INSERT turns it into the write transaction, which SQLite
   refuses with SQLITE_BUSY when another connection holds the write lock or
   has committed since the snapshot was taken. *)

\* The events the callers append: the checkpoint of a sync, the record of an
\* integrity check, a UI command, an export.
AppendedKinds ==
    {EVENT_KIND_SYNC_FINISHED, EVENT_KIND_INTEGRITY_CHECK,
     EVENT_KIND_ACCOUNT_REMOVED, EVENT_KIND_AUDITOR_EXPORT}

\* open_connection and conn.transaction().
AppendEventBegin ==
    /\ \E c \in Connections, kind \in AppendedKinds, now \in Clock :
         /\ connections[c].pc = "none"
         /\ Len(db.events) + Cardinality({o \in Connections :
                                            connections[o].pc # "none"}) < MaxEvents
         /\ connections' = [connections EXCEPT ![c] =
               [NoTransaction EXCEPT
                  !.pc = "begun",
                  !.input = <<[occurred_at |-> now, kind |-> kind,
                               account_id |-> Null, mailbox_id |-> Null,
                               message_blob_id |-> Null,
                               detail |-> JsonObject(<<>>)]>>]]
         /\ last' = [op |-> "transaction", ok |-> TRUE, fault |-> "none"]
    /\ UNCHANGED <<db, sync, integrity, returned, tamper, server, sync_lock,
                   ops, faults, secrets, background, package, call>>

\* last_event_hash_tx: the first statement of the transaction reads the tail
\* in the snapshot it takes.
AppendEventReadTail ==
    /\ \E c \in Connections :
         /\ connections[c].pc = "begun"
         /\ connections' = [connections EXCEPT ![c].pc = "read",
                                               ![c].snapshot = <<db>>]
         /\ last' = [op |-> "last_event_hash_tx", ok |-> TRUE, fault |-> "none"]
    /\ UNCHANGED <<db, sync, integrity, returned, tamper, server, sync_lock,
                   ops, faults, secrets, background, package, call>>

\* The outcome of the INSERT of connection c: the row to commit, or an error
\* that rolls the transaction back.  stale_allowed: the write goes on
\* although the database has changed since the snapshot.
InsertEvent(c, stale_allowed) ==
    LET t == connections[c]
        r == insert_event_tx(t.snapshot[1], t.input[1])
        locked == \E o \in Connections \ {c} : connections[o].pc = "written"
        stale == t.snapshot[1] # db
    IN  /\ t.pc = "read"
        /\ IF locked \/ (stale /\ ~stale_allowed)
           THEN /\ connections' = [connections EXCEPT ![c] = NoTransaction]
                /\ last' = [op |-> "append_event", ok |-> FALSE, fault |-> "busy"]
           ELSE IF ~r.ok
           THEN /\ connections' = [connections EXCEPT ![c] = NoTransaction]
                /\ last' = [op |-> "append_event", ok |-> FALSE, fault |-> "insert"]
           ELSE /\ connections' = [connections EXCEPT
                      ![c].pc = "written",
                      ![c].row = <<r.db.events[Len(r.db.events)]>>]
                /\ last' = [op |-> "insert_event_tx", ok |-> TRUE, fault |-> "none"]

\* An INSERT that does not look at what was committed since the tail was
\* read.
AppendEventInsert_on_stale_snapshot ==
    /\ \E c \in Connections : InsertEvent(c, TRUE)
    /\ UNCHANGED <<db, sync, integrity, returned, tamper, server, sync_lock,
                   ops, faults, secrets, background, package, call>>

\* insert_event_tx after the tail was read: compute_event_hash and INSERT.
AppendEventInsert ==
    /\ \E c \in Connections : InsertEvent(c, FALSE)
    /\ UNCHANGED <<db, sync, integrity, returned, tamper, server, sync_lock,
                   ops, faults, secrets, background, package, call>>

\* tx.commit(): the row gets the next id of the AUTOINCREMENT sequence and
\* is in the file.
AppendEventCommit ==
    /\ \E c \in Connections :
         LET id == db.sqlite_sequence.events + 1
         IN  /\ connections[c].pc = "written"
             /\ db' = [db EXCEPT
                         !.events = Append(@, [connections[c].row[1]
                                                  EXCEPT !.id = id]),
                         !.sqlite_sequence.events = id]
             /\ connections' = [connections EXCEPT ![c] = NoTransaction]
             /\ last' = [op |-> "append_event", ok |-> TRUE, fault |-> "none"]
    /\ UNCHANGED <<sync, integrity, returned, tamper, server, sync_lock,
                   ops, faults, secrets, background, package, call>>

NextConnections ==
    \/ AppendEventBegin
    \/ AppendEventReadTail
    \/ AppendEventInsert
    \/ AppendEventCommit

SpecConnections == InitLock /\ [][NextConnections]_vars

-----------------------------------------------------------------------------
(* The reset_mailbox_cursors command between and during the syncs of an
   account whose INBOX holds a message. *)

\* The reset_mailbox_cursors command: Storage::reset_mailbox_cursors on the
\* archive.  It takes no lock, so it can run while a sync is under way.
ResetMailboxCursors ==
    /\ sync.pc # "down"
    /\ \E account_id \in AccountIds, now \in Clock :
         LET r == reset_mailbox_cursors(db, account_id, now)
         IN  /\ db' = r.db
             /\ last' = Done("reset_mailbox_cursors", r, "none")
    /\ UNCHANGED <<sync, integrity, returned, tamper, server, sync_lock, ops, faults, secrets, connections, call, package, background>>

NextReset ==
    \/ CreateAccountAndDiscoverMailboxes
    \/ ResetMailboxCursors
    \/ SyncStart
    \/ SyncConnectFails
    \/ SyncSelect
    \/ SyncFetch
    \/ SyncFetchEnd
    \/ SyncFinish

InitReset ==
    /\ InitApp
    /\ call = NoCall
    /\ server = ServerWithOneMessage
    /\ faults = {}

SpecReset == InitReset /\ [][NextReset]_vars

-----------------------------------------------------------------------------
(* Mailbox discovery: account creation, the folders of the account changing
   on the server, the user's sync-enable toggles, and the rediscovery of
   every sync.  The folders are empty, so no FETCH response arrives. *)

NextDiscovery ==
    \/ CreateAccountAndDiscoverMailboxes
    \/ ServerFoldersChange
    \/ SetMailboxSyncEnabled
    \/ SyncStart
    \/ SyncConnectFails
    \/ SyncSelect
    \/ SyncFetchEnd
    \/ SyncFinish
    \/ Startup

SpecDiscovery == InitFolders /\ [][NextDiscovery]_vars

-----------------------------------------------------------------------------
(* The sync operations and the process-wide sync lock.  Each operation
   (run_sync_all_accounts_once of the background task, sync_all_accounts_command,
   sync_account_once_command) takes state.sync_lock.lock().await first, runs
   its account syncs while it holds the guard, and drops the guard when it
   returns. *)

\* The operation is called and reaches sync_lock.lock().await.
OpCall(o) ==
    /\ sync.pc # "down"
    /\ ops[o] = "idle"
    /\ ops' = [ops EXCEPT ![o] = "waiting"]
    /\ UNCHANGED <<db, last, sync, integrity, returned, tamper, server, sync_lock, faults, secrets, connections, call, package, background>>

\* A lock that is granted whether or not a guard is alive.
OpLock_unguarded(o) ==
    /\ ops[o] = "waiting"
    /\ sync_lock' = TRUE
    /\ ops' = [ops EXCEPT ![o] = "running"]
    /\ background' = [background EXCEPT !.sync_in_progress = TRUE]
    /\ UNCHANGED <<db, last, sync, integrity, returned, tamper, server, faults, secrets, connections, call, package>>

\* lock().await completes: the mutex was unlocked and the guard is taken;
\* set_sync_in_progress(true) follows with no await in between.
OpLock(o) ==
    /\ ops[o] = "waiting"
    /\ ~sync_lock
    /\ sync_lock' = TRUE
    /\ ops' = [ops EXCEPT ![o] = "running"]
    /\ background' = [background EXCEPT !.sync_in_progress = TRUE]
    /\ UNCHANGED <<db, last, sync, integrity, returned, tamper, server, faults, secrets, connections, call, package>>

\* A step of the sync body of an operation that holds the guard: a step of
\* an account sync.  (On the server of an empty INBOX no FETCH response
\* arrives.)
OpBody(o) ==
    /\ ops[o] = "running"
    /\ \/ SyncStart
       \/ SyncConnectFails
       \/ SyncSelect
       \/ SyncFetchEnd
       \/ SyncFinish

\* A return that drops the guard and leaves sync_in_progress as it is.
OpReturn_keeps_flag(o) ==
    /\ ops[o] = "running"
    /\ sync.pc = "idle"
    /\ sync_lock' = FALSE
    /\ ops' = [ops EXCEPT ![o] = "idle"]
    /\ UNCHANGED <<db, last, sync, integrity, returned, tamper, server, faults, secrets, connections, call, package, background>>

\* The operation returns between two account syncs: set_sync_in_progress(false),
\* then _sync_guard is dropped.
OpReturn(o) ==
    /\ ops[o] = "running"
    /\ sync.pc = "idle"
    /\ sync_lock' = FALSE
    /\ ops' = [ops EXCEPT ![o] = "idle"]
    /\ background' = [background EXCEPT !.sync_in_progress = FALSE]
    /\ UNCHANGED <<db, last, sync, integrity, returned, tamper, server, faults, secrets, connections, call, package>>

\* get_sync_status: the status with sync_in_progress read from the flag.
GetSyncStatus ==
    /\ sync.pc # "down"
    /\ call' = [op |-> "get_sync_status", input |-> <<>>,
                output |-> <<background.sync_in_progress>>]
    /\ UNCHANGED <<db, last, sync, integrity, returned, tamper, server, sync_lock, ops, faults, secrets, connections, package, background>>

NextLock ==
    \/ CreateAccountAndDiscoverMailboxes
    \/ \E o \in SyncOps : OpCall(o)
    \/ \E o \in SyncOps : OpLock(o)
    \/ \E o \in SyncOps : OpBody(o)
    \/ \E o \in SyncOps : OpReturn(o)
    \/ GetSyncStatus
    \/ ProcessExit
    \/ Startup

SpecLock == InitLock /\ [][NextLock]_vars

----------------------------------------------------------------------------
(* The external actor: a second program that opens the database file, drops
   the delete triggers, deletes rows and recreates the triggers. *)

LatestCheckpointRow(d) ==
    CHOOSE i \in SyncFinishedRows(d) : \A j \in SyncFinishedRows(d) : i >= j

\* The blob was in the archive when the latest checkpoint was recorded: its
\* email_archived event precedes that sync_finished event (every
\* sync_finished event is written by create_sync_finished_event and carries
\* a checkpoint).
InLatestCheckpoint(d, blob_id) ==
    /\ SyncFinishedRows(d) # {}
    /\ \E i \in ArchivedEventsOf(d, blob_id) : i < LatestCheckpointRow(d)

\* Removes a blob row with the events and locations that reference it.
TamperRemoveBlob ==
    /\ tamper.removed < MaxTamper
    /\ \E b \in {x \in db.message_blobs : ArchivedEventsOf(db, x.id) # {}} :
         LET dropped == [db EXCEPT !.triggers = {}]
             no_events == [dropped EXCEPT !.events =
                              SelectSeq(@, LAMBDA e : e.message_blob_id # b.id)]
             no_locations == [no_events EXCEPT !.message_locations =
                                 {l \in @ : l.message_blob_id # b.id}]
             removed == delete_message_blob(no_locations, b.id)
         IN  /\ db' = [removed.db EXCEPT !.triggers = apply_schema_v2]
             /\ last' = Done("tamper_remove_blob", removed, "none")
             /\ tamper' = [removed |-> tamper.removed + 1,
                           pending |-> TRUE,
                           had_checkpoint |->
                               \/ tamper.pending /\ tamper.had_checkpoint
                               \/ SyncFinishedRows(db) # {},
                           checkpointed |->
                               \/ tamper.pending /\ tamper.checkpointed
                               \/ InLatestCheckpoint(db, b.id),
                           fresh |->
                               \/ tamper.pending /\ tamper.fresh
                               \/ InLatestCheckpoint(db, b.id),
                           verified |-> FALSE]
    /\ UNCHANGED <<sync, integrity, returned, server, sync_lock, ops, faults, secrets, connections, call, package, background>>

\* Removes one email_archived event and nothing else.
TamperRemoveEvent ==
    /\ tamper.removed < MaxTamper
    /\ \E i \in {j \in 1..Len(db.events) :
                    db.events[j].kind = EVENT_KIND_EMAIL_ARCHIVED} :
         LET dropped == [db EXCEPT !.triggers = {}]
             removed == delete_event(dropped, db.events[i].id)
         IN  /\ db' = [removed.db EXCEPT !.triggers = apply_schema_v2]
             /\ last' = Done("tamper_remove_event", removed, "none")
             /\ tamper' = [tamper EXCEPT !.removed = @ + 1]
    /\ UNCHANGED <<sync, integrity, returned, server, sync_lock, ops, faults, secrets, connections, call, package, background>>

\* Storage::verify_integrity called on the file as it is.
VerifyIntegrity ==
    /\ integrity' = <<verify_integrity(db)>>
    /\ last' = Done("verify_integrity", Ok(db, Null), "none")
    /\ tamper' = Verified(tamper)
    /\ UNCHANGED <<db, sync, returned, server, sync_lock, ops, faults, secrets, connections, call, package, background>>

NextTamper ==
    \/ CreateAccount
    \/ UpsertMailbox
    \/ IngestMessage
    \/ CreateSyncFinishedEvent
    \/ AppendEvent
    \/ VerifyIntegrity
    \/ TamperRemoveBlob
    \/ TamperRemoveEvent

\* The archive of an account whose server holds every message body under
\* one UID.
InitTamper ==
    /\ InitApp
    /\ call = NoCall
    /\ server = [ServerWithInbox EXCEPT !.uids = {1}]
    /\ faults = {"create_sync_finished_event"}

SpecTamper == InitTamper /\ [][NextTamper]_vars

----------------------------------------------------------------------------
(* The event chain on its own: appends with any detail text, an external
   actor that rewrites or deletes event rows, and verify_event_chain. *)

\* The detail texts of an InsertEventInput (detail: String).
AppendedDetails == {RawText(""), JsonObject(<<>>)}

\* The values of the detail column (detail TEXT).
StoredDetails == AppendedDetails \cup {NullDetail}

\* Storage::append_event with a detail text of the caller.
AppendEventWithDetail ==
    /\ Room
    /\ \E detail \in AppendedDetails, now \in Clock :
         LET r == append_event(db,
                     [occurred_at |-> now, kind |-> EVENT_KIND_APP_STARTED,
                      account_id |-> Null, mailbox_id |-> Null,
                      message_blob_id |-> Null, detail |-> detail])
         IN  /\ db' = r.db
             /\ last' = Done("append_event", r, "none")
             /\ call' = [op |-> "append_event", input |-> <<detail>>,
                         output |-> <<r.value>>]
    /\ UNCHANGED <<sync, integrity, returned, tamper, server, sync_lock, ops, faults, secrets, connections, package, background>>

\* The rewritten row i: another prev_hash, another hash (hash is UNIQUE),
\* another detail.
RewrittenRows(events, i) ==
    LET row == events[i]
        hashes == {ZeroHash} \cup {events[j].hash : j \in 1..Len(events)}
        detail == IF row.detail = NullDetail THEN JsonObject(<<>>)
                  ELSE row.detail
        recomputed == compute_event_hash(row.prev_hash,
                                         [row EXCEPT !.detail = detail])
    IN  {[row EXCEPT !.prev_hash = h] : h \in hashes \ {row.prev_hash}}
        \cup {[row EXCEPT !.hash = h] :
                 h \in ({ZeroHash, recomputed} \ hashes)}
        \cup {[row EXCEPT !.detail = t] : t \in StoredDetails \ {row.detail}}

\* The external actor updates one column of an event row, or deletes the
\* row.
TamperRewriteEvent ==
    /\ tamper.removed < MaxRewrites
    /\ \E i \in 1..Len(db.events) :
         \/ \E row \in RewrittenRows(db.events, i) :
              db' = [db EXCEPT !.events[i] = row]
         \/ db' = [db EXCEPT !.events =
                       SelectSeq(@, LAMBDA e : e.id # db.events[i].id)]
    /\ last' = Done("tamper_rewrite_event", Ok(db, Null), "none")
    /\ tamper' = [tamper EXCEPT !.removed = @ + 1]
    /\ UNCHANGED <<sync, integrity, returned, server, sync_lock, ops, faults, secrets, connections, call, package, background>>

\* Storage::verify_event_chain called on the file as it is.
VerifyEventChain ==
    /\ call' = [op |-> "verify_event_chain", input |-> <<>>,
                output |-> <<verify_event_chain(db)>>]
    /\ last' = Done("verify_event_chain", Ok(db, Null), "none")
    /\ UNCHANGED <<db, sync, integrity, returned, tamper, server, sync_lock, ops, faults, secrets, connections, package, background>>

NextChain ==
    \/ AppendEventWithDetail
    \/ TamperRewriteEvent
    \/ VerifyEventChain

SpecChain == InitLock /\ [][NextChain]_vars

----------------------------------------------------------------------------
(* Syncs of an account whose server answers LIST in any order. *)

InitOrder ==
    /\ InitApp
    /\ call = NoCall
    /\ server = [ServerWithAllFolders EXCEPT !.any_order = TRUE]
    /\ faults = {}

NextOrder ==
    \/ CreateAccountAndDiscoverMailboxes
    \/ SyncStart
    \/ SyncSelect
    \/ SyncFetch
    \/ SyncFetchEnd
    \/ SyncFinish

SpecOrder == InitOrder /\ [][NextOrder]_vars

----------------------------------------------------------------------------
(* KeychainSecretStore called from several threads for one secret_ref.  A
   step is one call of the keyring entry or one critical section of
   SECRET_CACHE. *)

UnchangedBySecretStore ==
    UNCHANGED <<db, last, sync, integrity, returned, tamper, server, sync_lock,
                ops, faults, background, package, call, connections>>

Returns(t, value) ==
    [secrets EXCEPT !.calls[t] = [pc |-> "idle", secret |-> Null,
                                  returned |-> <<value>>]]

\* set_secret: Entry::new and set_password; an error is returned at once.
SetSecret(t) ==
    /\ secrets.calls[t].pc = "idle"
    /\ \E secret \in SecretValues, fault \in MayFail({"keychain"}) :
         secrets' = IF fault = "none"
                    THEN [secrets EXCEPT !.keychain = secret,
                             !.calls[t] = [pc |-> "set_cache", secret |-> secret,
                                           returned |-> <<>>]]
                    ELSE Returns(t, "err")
    /\ UnchangedBySecretStore

\* set_secret: cache.insert under the cache lock, then Ok(()).
SetSecretCache(t) ==
    /\ secrets.calls[t].pc = "set_cache"
    /\ secrets' = [Returns(t, "ok") EXCEPT !.cache = secrets.calls[t].secret]
    /\ UnchangedBySecretStore

\* get_secret: the cache lookup; a hit is returned.
GetSecret(t) ==
    /\ secrets.calls[t].pc = "idle"
    /\ secrets' = IF secrets.cache # Null
                  THEN Returns(t, secrets.cache)
                  ELSE [secrets EXCEPT !.calls[t].pc = "get_password",
                                       !.calls[t].returned = <<>>]
    /\ UnchangedBySecretStore

\* get_secret after a miss: Entry::new and get_password; NoEntry is
\* returned as None, any other error as Err.
GetSecretPassword(t) ==
    /\ secrets.calls[t].pc = "get_password"
    /\ \E fault \in MayFail({"keychain"}) :
         secrets' = IF fault # "none" THEN Returns(t, "err")
                    ELSE IF secrets.keychain = Null THEN Returns(t, Null)
                    ELSE [secrets EXCEPT !.calls[t].pc = "get_cache",
                                         !.calls[t].secret = secrets.keychain]
    /\ UnchangedBySecretStore

\* get_secret: cache.insert of the value read, then Ok(Some(value)).
GetSecretCache(t) ==
    /\ secrets.calls[t].pc = "get_cache"
    /\ secrets' = [Returns(t, secrets.calls[t].secret)
                      EXCEPT !.cache = secrets.calls[t].secret]
    /\ UnchangedBySecretStore

\* delete_secret: cache.remove first.
DeleteSecret(t) ==
    /\ secrets.calls[t].pc = "idle"
    /\ secrets' = [secrets EXCEPT !.cache = Null,
                                  !.calls[t].pc = "delete_credential",
                                  !.calls[t].returned = <<>>]
    /\ UnchangedBySecretStore

\* delete_secret: Entry::new and delete_credential; NoEntry is Ok(()).
DeleteSecretCredential(t) ==
    /\ secrets.calls[t].pc = "delete_credential"
    /\ \E fault \in MayFail({"keychain"}) :
         secrets' = IF fault = "none"
                    THEN [Returns(t, "ok") EXCEPT !.keychain = Null]
                    ELSE Returns(t, "err")
    /\ UnchangedBySecretStore

InitSecrets ==
    /\ InitApp
    /\ call = NoCall
    /\ server = ServerWithEmptyInbox
    /\ faults = {"keychain"}

NextSecrets ==
    \/ \E t \in Callers : SetSecret(t)
    \/ \E t \in Callers : SetSecretCache(t)
    \/ \E t \in Callers : GetSecret(t)
    \/ \E t \in Callers : GetSecretPassword(t)
    \/ \E t \in Callers : GetSecretCache(t)
    \/ \E t \in Callers : DeleteSecret(t)
    \/ \E t \in Callers : DeleteSecretCredential(t)

SpecSecrets == InitSecrets /\ [][NextSecrets]_vars

----------------------------------------------------------------------------
(* Properties of the storage layer (SpecStorage). *)

\* C1: in the event log ordered by id, the first event's prev_hash is 64
\* zeros and every later event's prev_hash is the stored hash of the event
\* right before it, whatever mix of stand-alone appends, ingests and
\* sync_finished checkpoints produced the log.
EventChainLinked ==
    \A i \in 1..Len(db.events) :
        db.events[i].prev_hash =
            IF i = 1 THEN ZeroHash ELSE db.events[i - 1].hash

\* A log of three events that holds an ingest's event, a checkpoint and a
\* stand-alone append.
EventChainLinkedWitness ==
    /\ Len(db.events) >= 3
    /\ \E i \in 1..Len(db.events) : db.events[i].kind = EVENT_KIND_EMAIL_ARCHIVED
    /\ \E i \in 1..Len(db.events) : db.events[i].kind = EVENT_KIND_SYNC_FINISHED
    /\ \E i \in 1..Len(db.events) : db.events[i].kind = EVENT_KIND_APP_STARTED

\* C2: at every quiescent point, after any sequence of public storage
\* operations, every blob row has at least one email_archived event whose
\* message_blob_id is the blob's id.
EveryBlobHasArchivedEvent ==
    \A b \in db.message_blobs : ArchivedEventsOf(db, b.id) # {}

\* C4: an ingest is all-or-nothing.  A failed ingest_message (a failing
\* statement, or a process exit before commit) leaves the database as it
\* was; a successful one has committed the blob, a location for it and, for
\* a new blob, its email_archived event in the same step.
IngestAllOrNothing ==
    [][last'.op = "ingest_message" =>
        IF ~last'.ok THEN db' = db
        ELSE LET new_blobs == db'.message_blobs \ db.message_blobs
             IN  /\ Cardinality(new_blobs) <= 1
                 /\ db'.message_locations # {}
                 /\ new_blobs = {} => db'.events = db.events
                 /\ \A b \in new_blobs :
                      /\ \E l \in db'.message_locations : l.message_blob_id = b.id
                      /\ Len(db'.events) = Len(db.events) + 1
                      /\ ArchivedEventsOf(db', b.id) = {Len(db'.events)}]_vars

\* An ingest into an existing mailbox of an empty archive was cut off right
\* before commit: blob, location and event were all pending.
IngestAllOrNothingWitness ==
    /\ last.op = "ingest_message" /\ ~last.ok /\ last.fault = "commit"
    /\ db.accounts # {} /\ db.mailboxes # {}
    /\ db.message_blobs = {} /\ db.message_locations = {}

\* C5: every location row's blob id refers to a blob row that exists.
LocationsReferenceBlobs ==
    \A l \in db.message_locations : HasRow(db.message_blobs, l.message_blob_id)

\* A location upsert naming a missing blob was just refused while other
\* locations exist.
LocationsReferenceBlobsWitness ==
    /\ last.op = "upsert_message_location" /\ ~last.ok
    /\ db.message_locations # {}
    /\ db.accounts # {} /\ db.mailboxes # {}
    /\ Cardinality(db.message_blobs) < NumMessages

\* C8: a DELETE of a blob row or of an event row through the storage layer
\* is rejected with an error and the row stays: no row of either table ever
\* disappears.
DeleteRejected ==
    [][/\ last'.op \in {"delete_message_blob", "delete_event"}
            => ~last'.ok /\ db' = db
       /\ db.message_blobs \subseteq db'.message_blobs
       /\ SubSeq(db'.events, 1, Len(db.events)) = db.events]_vars

\* A DELETE of an existing event row was just rejected.
DeleteRejectedWitness ==
    /\ last.op = "delete_event" /\ ~last.ok
    /\ Len(db.events) > 0 /\ db.message_blobs # {}

----------------------------------------------------------------------------
(* Properties of the running application (SpecSystem). *)

BlobsOf(d, m) == {b \in d.message_blobs : b.sha256 = sha256_hex(m)}

LastEvent == db.events[Len(db.events)]

\* C6: immediately after an account sync has appended its sync_finished
\* event carrying root_hash H and blob_count C, the root hash recomputed
\* over the current blobs equals H and the number of blob rows equals C.
CheckpointMatchesAtSyncFinished ==
    (last.op = "sync_account_once" /\ last.ok) =>
        /\ LastEvent.kind = EVENT_KIND_SYNC_FINISHED
        /\ CheckpointOf(LastEvent.detail) # <<>>
        /\ CheckpointOf(LastEvent.detail)[1].root_hash
               = compute_message_blobs_root_hash(db)
        /\ CheckpointOf(LastEvent.detail)[1].blob_count
               = count_rows(db, "message_blobs")

\* A sync that ingested a message has just recorded its checkpoint.
CheckpointMatchesAtSyncFinishedWitness ==
    /\ last.op = "sync_account_once" /\ last.ok
    /\ db.message_blobs # {}
    /\ \E i \in 1..Len(db.events) : db.events[i].kind = EVENT_KIND_EMAIL_ARCHIVED

\* C7: at every quiescent point (no sync or ingest in flight), also after a
\* sync that returned an error and after a process exit in mid-sync, the
\* root_hash and blob_count of the latest sync_finished event that carries
\* them equal the root hash and the blob count of the current archive.
CheckpointMatchesWhenQuiescent ==
    sync.pc = "idle" => RootHashOk(db)

----------------------------------------------------------------------------
(* Properties under an external actor (SpecTamper). *)

\* C9 as stated: once a sync_finished checkpoint has been recorded and the
\* actor has removed a blob row with its email_archived event, the next
\* verify_integrity reports ok = false and root_hash_ok = false.
RemovalAfterCheckpointDetected ==
    (tamper.verified /\ tamper.had_checkpoint) =>
        /\ integrity # <<>>
        /\ ~integrity[1].ok
        /\ ~integrity[1].root_hash_ok

\* C9, amended: when the removed blob was in the archive at the time the
\* latest checkpoint was recorded, a verify_integrity that runs before any
\* further ingest or sync_finished reports ok = false and
\* root_hash_ok = false.
CheckpointedRemovalDetected ==
    (tamper.verified /\ tamper.checkpointed /\ tamper.fresh) =>
        /\ integrity # <<>>
        /\ ~integrity[1].ok
        /\ ~integrity[1].root_hash_ok

\* verify_integrity has just judged the removal of a checkpointed blob.
CheckpointedRemovalDetectedWitness ==
    /\ tamper.verified /\ tamper.checkpointed /\ tamper.fresh
    /\ last.op = "verify_integrity"
    /\ integrity # <<>>

\* C10: in every state the system reaches, removing any email_archived
\* event from the log makes verify_event_chain report a mismatch.
ArchivedEventRemovalBreaksChain ==
    last.op = "tamper_remove_event" =>
        verify_event_chain(db).first_mismatch_event_id # Null

\* The mailbox in sync fails in this step, after its SELECT succeeded.
FailsAfterSelect ==
    /\ sync.pc \in {"select", "fetch"}
    /\ Mailbox.id \in sync'.failed
    /\ last'.fault # "select"

\* The row of mailbox id.
MailboxRow(d, id) == CHOOSE m \in d.mailboxes : m.id = id

\* max(highest UID processed for the mailbox in this run, the cursor the
\* row had before the run).
ProgressCursor ==
    LET seen == sync.processed \cup {Mailbox.last_seen_uid}
    IN  CHOOSE u \in seen : \A v \in seen : u >= v

\* C15 (as stated): when a mailbox sync fails after SELECT, the step leaves
\* the mailbox row with last_seen_uid = max(highest UID processed in this
\* run, the cursor stored before the run) and with last_error set.
FailureAfterSelectPersisted ==
    [][FailsAfterSelect =>
        LET row == MailboxRow(db', Mailbox.id)
        IN  /\ row.last_seen_uid = ProgressCursor
            /\ row.last_error = SomeError]_vars

\* C15 (amended): when a mailbox sync fails after SELECT, the error branch
\* calls update_mailbox_cursor with last_seen_uid = max(highest UID
\* processed in this run, the cursor stored before the run), the stored
\* UIDVALIDITY and last_error set; the row holds these values when that
\* call succeeds and is unchanged when it fails.
FailureAfterSelectPersistedUnlessWriteFails ==
    [][FailsAfterSelect =>
        LET row == MailboxRow(db', Mailbox.id)
        IN  IF Mailbox.id \in sync'.unrecorded
            THEN row = MailboxRow(db, Mailbox.id)
            ELSE /\ row.last_seen_uid = ProgressCursor
                 /\ row.uidvalidity = Mailbox.uidvalidity
                 /\ row.last_error = SomeError]_vars

\* The fetch of a mailbox with cursor 0 failed after UID 1 was processed;
\* its row holds cursor 1 and the error.
FailureAfterSelectPersistedUnlessWriteFailsWitness ==
    /\ last.op = "sync_mailbox" /\ ~last.ok
    /\ last.fault \in {"error", "no_uid", "no_body"}
    /\ sync.idx > 1
    /\ LET before == sync.mailboxes[sync.idx - 1]
           row == MailboxRow(db, before.id)
       IN  /\ before.last_seen_uid = 0
           /\ before.id \in sync.failed \ sync.unrecorded
           /\ row.last_seen_uid = 1
           /\ row.last_error = SomeError

-----------------------------------------------------------------------------
(* Properties of an account sync (SpecSystem). *)

\* An account sync is past discovery and has not returned.
InRun == sync.pc \in {"select", "fetch", "finish"}

\* The step appends one sync_finished event for the account in sync, with
\* status "partial" when a mailbox failed in the run and "ok" otherwise.
AppendsSyncFinished ==
    /\ Len(db'.events) = Len(db.events) + 1
    /\ SubSeq(db'.events, 1, Len(db.events)) = db.events
    /\ LET e == db'.events[Len(db'.events)]
       IN  /\ e.kind = EVENT_KIND_SYNC_FINISHED
           /\ e.account_id = sync.account_id
           /\ JsonGet(e.detail, "status") =
                  <<JStr("status", IF sync.failed # {} THEN "partial" ELSE "ok")>>

\* C13 (as stated): no step of an account sync before its return appends a
\* sync_finished event, and the step by which a sync past discovery returns
\* appends exactly one, for its account, with status "partial" if at least
\* one mailbox failed in the run and "ok" otherwise.
EverySyncAppendsOneSyncFinished ==
    [][/\ sync'.pc \in {"select", "fetch", "finish"} =>
              SyncFinishedRows(db') = SyncFinishedRows(db)
       /\ (InRun /\ sync'.pc = "idle") => AppendsSyncFinished]_vars

\* C13 (amended): no step of an account sync before its return appends a
\* sync_finished event; a sync past discovery that returns Ok appends
\* exactly one with its last step, for its account, with status "partial"
\* if at least one mailbox failed in the run and "ok" otherwise; one that
\* returns the error of create_sync_finished_event appends none.
EveryOkSyncAppendsOneSyncFinished ==
    [][/\ sync'.pc \in {"select", "fetch", "finish"} =>
              SyncFinishedRows(db') = SyncFinishedRows(db)
       /\ (InRun /\ sync'.pc = "idle") =>
              IF last'.ok THEN AppendsSyncFinished
              ELSE db'.events = db.events]_vars

\* A sync in which the mailbox failed has returned Ok and the log ends with
\* its sync_finished event of status "partial".
EveryOkSyncAppendsOneSyncFinishedWitness ==
    /\ sync.pc = "idle"
    /\ last.op = "sync_account_once" /\ last.ok
    /\ db.events # <<>>
    /\ LET e == db.events[Len(db.events)]
       IN  /\ e.kind = EVENT_KIND_SYNC_FINISHED
           /\ JsonGet(e.detail, "status") = <<JStr("status", "partial")>>

\* The events the step appends.
NewEvents == SubSeq(db'.events, Len(db.events) + 1, Len(db'.events))

\* C14: in an account sync run, an email_archived event is appended only
\* by a step of the fetch loop that leaves the run in progress, and the
\* sync_finished event is appended by the step that ends the run, with an
\* id above every id in the log: every email_archived event of the run has
\* a smaller id than the run's sync_finished event and none follows it.
EmailArchivedBeforeSyncFinished ==
    [][InRun =>
        /\ (\E i \in 1..Len(NewEvents) :
                NewEvents[i].kind = EVENT_KIND_EMAIL_ARCHIVED) =>
               /\ sync.pc = "fetch"
               /\ sync'.pc \in {"select", "fetch", "finish"}
               /\ \A i \in 1..Len(NewEvents) :
                      NewEvents[i].kind # EVENT_KIND_SYNC_FINISHED
        /\ (\E i \in 1..Len(NewEvents) :
                NewEvents[i].kind = EVENT_KIND_SYNC_FINISHED) =>
               /\ sync'.pc = "idle"
               /\ \A i \in 1..Len(NewEvents), j \in 1..Len(db.events) :
                      db.events[j].id < NewEvents[i].id]_vars

\* A sync has returned Ok; the log holds an email_archived event of its
\* account and, after it, the sync_finished event the sync ended with.
EmailArchivedBeforeSyncFinishedWitness ==
    /\ sync.pc = "idle"
    /\ last.op = "sync_account_once" /\ last.ok
    /\ \E i \in 1..Len(db.events) :
           /\ i < Len(db.events)
           /\ db.events[i].kind = EVENT_KIND_EMAIL_ARCHIVED
           /\ db.events[Len(db.events)].kind = EVENT_KIND_SYNC_FINISHED
           /\ db.events[i].account_id = db.events[Len(db.events)].account_id
           /\ db.events[i].id < db.events[Len(db.events)].id

\* C16: a mailbox whose messages were all delivered and skipped as
\* oversized, none ingested, completes its sync when the stream has ended
\* without an IMAP error: the mailbox does not fail and its stored
\* last_seen_uid is at least every skipped UID, also on a first sync
\* (cursor 0).
OversizedNeverFailsMailbox ==
    [][(/\ sync.pc = "fetch"
        /\ sync.oversized
        /\ sync.fetched_in_mailbox = 0
        /\ sync.processed = server.uids
        /\ Mailbox.id \in sync'.attempted
        /\ last'.fault \in {"none", "fetched_0_messages"}) =>
           /\ Mailbox.id \notin sync'.failed
           /\ \A uid \in sync.processed :
                  MailboxRow(db', Mailbox.id).last_seen_uid >= uid]_vars

-----------------------------------------------------------------------------
(* Properties of the sync operations (SpecLock). *)

\* C11: at any moment at most one sync operation (background cycle,
\* sync-all command, single-account command) is executing its sync body,
\* and an account sync is only in flight while one operation holds the
\* sync lock; so an operation that reaches the lock while another one is
\* running stays waiting until that one has returned.
AtMostOneSyncOperation ==
    /\ Cardinality({o \in SyncOps : ops[o] = "running"}) <= 1
    /\ (\E o \in SyncOps : ops[o] = "running") => sync_lock
    /\ sync.pc \in {"select", "fetch", "finish"} =>
           \E o \in SyncOps : ops[o] = "running"

\* One operation is inside an account sync while the two others wait on
\* the lock.
AtMostOneSyncOperationWitness ==
    /\ sync.pc = "select"
    /\ Cardinality({o \in SyncOps : ops[o] = "running"}) = 1
    /\ Cardinality({o \in SyncOps : ops[o] = "waiting"}) = 2

-----------------------------------------------------------------------------
(* Properties of the mailbox rows (SpecMailbox). *)

\* The step is a successful upsert_mailbox.
UpsertStep == last'.op = "upsert_mailbox" /\ last'.ok

\* The fields of a mailbox row that an upsert on an existing row keeps:
\* sync_enabled, last_seen_uid, last_sync_at, last_error, and the row's
\* identity and creation time; uidvalidity changes only to a supplied value.
UpsertKeeps(old, new) ==
    /\ new.sync_enabled = old.sync_enabled
    /\ new.last_seen_uid = old.last_seen_uid
    /\ new.last_sync_at = old.last_sync_at
    /\ new.last_error = old.last_error
    /\ new.account_id = old.account_id
    /\ new.imap_name = old.imap_name
    /\ new.created_at = old.created_at
    /\ new.uidvalidity # old.uidvalidity => new.uidvalidity # Null

\* C18 (as stated): an upsert_mailbox on an existing (account, name) leaves
\* the row's sync_enabled, last_seen_uid, last_sync_at and last_error
\* unchanged whatever the upsert carries; only delimiter, attributes,
\* hard_excluded and (to a supplied value) uidvalidity change.
UpsertChangesOnlyDiscoveredFields ==
    [][UpsertStep =>
        \A old \in db.mailboxes :
            \E new \in db'.mailboxes :
                /\ new.id = old.id
                /\ UpsertKeeps(old, new)
                /\ new.updated_at = old.updated_at]_vars

\* C18 (amended): an upsert_mailbox on an existing (account, name) leaves
\* the row's sync_enabled, last_seen_uid, last_sync_at and last_error
\* unchanged whatever the upsert carries; only delimiter, attributes,
\* hard_excluded, (to a supplied value) uidvalidity and updated_at change.
UpsertChangesOnlyDiscoveredFieldsAndUpdatedAt ==
    [][UpsertStep =>
        \A old \in db.mailboxes :
            \E new \in db'.mailboxes :
                /\ new.id = old.id
                /\ UpsertKeeps(old, new)]_vars

\* The last call was an upsert on a row that a cursor update had written
\* before: the row is enabled and hard-excluded, holds a cursor, a sync
\* time and an error, and was updated after its creation.
UpsertChangesOnlyDiscoveredFieldsAndUpdatedAtWitness ==
    /\ last.op = "upsert_mailbox" /\ last.ok
    /\ \E m \in db.mailboxes :
           /\ m.sync_enabled /\ m.hard_excluded
           /\ m.attributes = "NoSelect"
           /\ m.last_seen_uid > 0
           /\ m.last_sync_at # NoTime
           /\ m.last_error = SomeError
           /\ m.updated_at > m.created_at

-----------------------------------------------------------------------------
(* Properties of an account sync over several mailboxes (SpecSync). *)

\* The mailboxes of the account in sync that are enabled and not excluded.
EnabledMailboxes ==
    {m \in db.mailboxes : /\ m.account_id = sync.account_id
                          /\ m.sync_enabled /\ ~m.hard_excluded}

\* The row the run started from, for a mailbox of the run.
RowAtStart(id) ==
    CHOOSE m \in {sync.mailboxes[i] : i \in 1..Len(sync.mailboxes)} : m.id = id

\* C12 (as stated): when the mailbox loop of an account sync is over, every
\* enabled non-excluded mailbox has been attempted, also those ordered
\* after a mailbox that failed, and the row of every mailbox that failed
\* has last_error set.
FailedMailboxHasLastError ==
    /\ sync.pc = "finish" => \A m \in EnabledMailboxes : m.id \in sync.attempted
    /\ sync.pc = "finish" =>
           \A m \in db.mailboxes : m.id \in sync.failed => m.last_error # NoError

\* C12 (amended): when the mailbox loop of an account sync is over, every
\* enabled non-excluded mailbox has been attempted, also those ordered
\* after a mailbox that failed; the row of a mailbox that failed has
\* last_error set when the update of the error branch succeeded, and is the
\* row the run started from when that update failed.
FailedMailboxRecordedOrUnchanged ==
    /\ sync.pc = "finish" => \A m \in EnabledMailboxes : m.id \in sync.attempted
    /\ sync.pc = "finish" =>
           \A m \in db.mailboxes :
               /\ m.id \in sync.failed \ sync.unrecorded => m.last_error = SomeError
               /\ m.id \in sync.unrecorded => m = RowAtStart(m.id)

\* The first of two enabled mailboxes failed and its error is on its row;
\* the second was attempted and did not fail.
FailedMailboxRecordedOrUnchangedWitness ==
    /\ sync.pc = "finish"
    /\ Len(sync.mailboxes) = 2
    /\ sync.failed = {sync.mailboxes[1].id}
    /\ sync.unrecorded = {}
    /\ sync.attempted = {sync.mailboxes[1].id, sync.mailboxes[2].id}
    /\ \E m \in db.mailboxes :
           m.id = sync.mailboxes[1].id /\ m.last_error = SomeError

-----------------------------------------------------------------------------
(* Properties of mailbox discovery and account creation (SpecDiscovery). *)

\* C17: after any sequence of discoveries, rediscoveries with changed
\* attributes, sync-enable toggles and syncs, no mailbox row has
\* hard_excluded and sync_enabled both true.
NoExcludedMailboxEnabled ==
    \A m \in db.mailboxes : ~(m.hard_excluded /\ m.sync_enabled)

\* C19: whenever discovery inserts a mailbox row, at account creation or
\* in a later sync that sees a new folder, its sync_enabled is false if the
\* mailbox is hard-excluded, otherwise true if the account's selection
\* mode is auto, otherwise true only if its name is INBOX.
InsertedMailboxHasDefaultSyncEnabled ==
    [][\A m \in db'.mailboxes :
          (\A old \in db.mailboxes : old.id # m.id) =>
              \E a \in db'.accounts :
                  /\ a.id = m.account_id
                  /\ m.sync_enabled =
                         IF m.hard_excluded THEN FALSE
                         ELSE IF a.mailbox_selection_mode = "auto" THEN TRUE
                         ELSE m.imap_name = INBOX]_vars

\* C20: at every state an account row exists if and only if the event log
\* holds an account_created event for that account id.
AccountRowIffAccountCreatedEvent ==
    \A id \in AccountIds :
        (\E a \in db.accounts : a.id = id) <=>
            (\E i \in 1..Len(db.events) :
                /\ db.events[i].kind = EVENT_KIND_ACCOUNT_CREATED
                /\ db.events[i].account_id = id)

-----------------------------------------------------------------------------
(* Properties of removed accounts (SpecAccounts). *)

\* Whether the account of id is disabled in d.
AccountDisabled(d, id) == \E a \in d.accounts : a.id = id /\ a.disabled

\* C21: no sync operation connects to the server, ingests a message or
\* appends a sync_finished event for an account whose disabled flag is
\* true: a step that starts the sync of an account, a step of a running sync
\* that stores a blob, a location or an event, is a step for an account
\* that is not disabled.
NoSyncOfDisabledAccount ==
    [][/\ (sync.pc = "idle" /\ sync'.pc \in {"select", "finish"})
            => ~AccountDisabled(db, sync'.account_id)
       /\ (sync.pc \in {"fetch", "finish"}
              /\ (db'.message_blobs # db.message_blobs
                     \/ db'.message_locations # db.message_locations
                     \/ Len(db'.events) > Len(db.events))
              /\ sync'.pc # "down")
            => \/ ~AccountDisabled(db, sync.account_id)
               \/ last'.op = "remove_account"]_vars

-----------------------------------------------------------------------------
(* Properties of the integrity checks (SpecSystem). *)

\* The events of kind integrity_check or tampering_detected among the events
\* a step appends.
RecordedChecks ==
    SelectSeq(NewEvents, LAMBDA e : e.kind \in {EVENT_KIND_INTEGRITY_CHECK,
                                                EVENT_KIND_TAMPERING_DETECTED})

\* The step runs verify_integrity_at_startup or run_periodic_integrity_check.
VerificationRuns == last'.op \in {"verify_integrity", "verify_root_hash_only"}

\* The one event of RecordedChecks is the record of status: integrity_check
\* with result "ok" and kind "full" or "quick", or tampering_detected with
\* the issues of status.
RecordOf(status) ==
    /\ Len(RecordedChecks) = 1
    /\ LET e == RecordedChecks[1]
       IN  IF status.ok
           THEN /\ e.kind = EVENT_KIND_INTEGRITY_CHECK
                /\ JsonGet(e.detail, "result") = <<JStr("result", "ok")>>
                /\ \E k \in {"full", "quick"} :
                      JsonGet(e.detail, "kind") = <<JStr("kind", k)>>
           ELSE /\ e.kind = EVENT_KIND_TAMPERING_DETECTED
                /\ JsonGet(e.detail, "issues") = <<JArr("issues", status.issues)>>
                /\ status.issues # <<>>

\* C22: every integrity verification that runs, at start-up or after a
\* background sync cycle, appends exactly one event: integrity_check with
\* result "ok" and kind "full" or "quick" when the status is ok, and
\* tampering_detected with the list of issues otherwise.
EveryVerificationRecordedWithKind ==
    [][VerificationRuns => RecordOf(integrity'[1])]_vars

-----------------------------------------------------------------------------
(* Properties of the background task (SpecBackground). *)

\* The step that ends an iteration of the loop: from the return of
\* run_sync_all_accounts_once to the sleep.
EndsIteration == background.pc = "returned" /\ background'.pc = "sleep"

\* The step appends exactly one record of a check, of kind "full" when full
\* and of kind "quick" otherwise.
RunsOneCheck(full) ==
    /\ Len(RecordedChecks) = 1
    /\ JsonGet(RecordedChecks[1].detail, "kind")
           = <<JStr("kind", IF full THEN "full" ELSE "quick")>>

-----------------------------------------------------------------------------
(* Properties of the cursor reset (SpecReset). *)

\* The sync state of a mailbox row is cleared: no uidvalidity, cursor 0, no
\* last_sync_at, no last_error.
CursorCleared(m) ==
    /\ m.uidvalidity = Null
    /\ m.last_seen_uid = 0
    /\ m.last_sync_at = NoTime
    /\ m.last_error = NoError

\* C24: after reset_cursors(account) every mailbox of that account, and no
\* mailbox of another account, has uidvalidity, last_sync_at and last_error
\* cleared and last_seen_uid = 0; and the next sync of a mailbox whose row
\* is in that state does not take the UIDNEXT short-circuit and fetches
\* from UID 1 (or fails at SELECT).
ResetForcesFetchFromUid1 ==
    [][/\ last'.op = "reset_mailbox_cursors" =>
            \E account_id \in AccountIds :
                \A m \in db'.mailboxes :
                    IF m.account_id = account_id THEN CursorCleared(m)
                    ELSE m \in db.mailboxes
       /\ (sync.pc = "select" /\ sync' # sync
              /\ CursorCleared(MailboxRow(db, Mailbox.id)))
            => \/ Mailbox.id \in sync'.failed
               \/ sync'.pc = "fetch" /\ sync'.last_seen_uid = 0]_vars

-----------------------------------------------------------------------------
(* Properties of the auditor export (SpecExport). *)

\* The step exports a package right after an export, with no other
\* operation in between.
ExportsAgain ==
    /\ last.op = "export_auditor_package"
    /\ last'.op = "export_auditor_package"
    /\ db' # db

\* C25: exporting the auditor package twice in succession from the same
\* archive, with no sync and no other user operation in between, produces
\* index.csv, events.jsonl, proof_snapshot.json (apart from created_at) and
\* messages/*.eml entries that are identical between the two packages.
ExportTwiceIdentical ==
    [][ExportsAgain =>
          /\ package'[1].index_csv = package[1].index_csv
          /\ package'[1].events_jsonl = package[1].events_jsonl
          /\ [package'[1].proof_snapshot EXCEPT !.created_at = 0]
                = [package[1].proof_snapshot EXCEPT !.created_at = 0]
          /\ package'[1].messages = package[1].messages]_vars

-----------------------------------------------------------------------------
(* Properties of the full-text query compiler (SpecFts). *)

\* The characters of an FTS5 expression that stand outside its double-quoted
\* strings; inside a string "" is a quote character of the string.
RECURSIVE Unquoted(_, _)
Unquoted(expr, in_string) ==
    IF expr = <<>> THEN <<>>
    ELSE IF Head(expr) = "\""
    THEN IF in_string /\ Len(expr) > 1 /\ expr[2] = "\""
         THEN Unquoted(Tail(Tail(expr)), TRUE)
         ELSE <<"\"">> \o Unquoted(Tail(expr), ~in_string)
    ELSE (IF in_string THEN <<>> ELSE <<Head(expr)>>)
             \o Unquoted(Tail(expr), in_string)

\* What the compiler writes around n strings: each string (its two quotes
\* kept as marks) followed by *, the terms joined by " AND ".
RECURSIVE PrefixTerms(_)
PrefixTerms(n) ==
    IF n = 1 THEN <<"\"", "\"", "*">>
    ELSE <<"\"", "\"", "*", " ", "A", "N", "D", " ">> \o PrefixTerms(n - 1)

\* C26: for every user query the expression produced by the compiler holds
\* user-derived text only inside double-quoted prefix terms: outside the
\* quoted strings it consists of the * after each string and the " AND "
\* between two terms, one term per word of the query at most, so that no
\* keyword and no operator character of the user input stands unquoted.
UserTextOnlyInQuotedPrefixTerms ==
    (call.op = "build_fts5_query" /\ call.output # <<>>) =>
        \E n \in 1..Len(split_whitespace(call.input, <<>>)) :
            Unquoted(call.output[1], FALSE) = PrefixTerms(n)

\* A query with the keyword OR as a word, a double quote and a * has been
\* compiled to an expression.
UserTextOnlyInQuotedPrefixTermsWitness ==
    /\ call.op = "build_fts5_query"
    /\ call.output # <<>>
    /\ \E i \in 1..Len(split_whitespace(call.input, <<>>)) :
          split_whitespace(call.input, <<>>)[i] = <<"O", "R">>
    /\ \E i \in 1..Len(call.input) : call.input[i] = "\""
    /\ \E i \in 1..Len(call.input) : call.input[i] = "*"

-----------------------------------------------------------------------------
(* Properties of the UIDVALIDITY comparison (SpecCursor). *)

\* The first UID of the range "{start_uid}:*" that sync_mailbox fetches.
start_uid(s) == s.last_seen_uid + 1

-----------------------------------------------------------------------------
(* Properties of the resume cursor (SpecCursor). *)

\* The location row of (mailbox, uidvalidity, uid) exists in d.
HasLocation(d, mailbox_id, uidvalidity, uid) ==
    \E l \in d.message_locations :
        /\ l.mailbox_id = mailbox_id
        /\ l.uidvalidity = uidvalidity
        /\ l.uid = uid

\* C27: whenever a mailbox sync fetches the range that starts at UID c + 1
\* with c > 0, every message the server holds in the mailbox under its
\* current UIDVALIDITY with a UID up to c (all are within the size limit)
\* has its location row (mailbox, UIDVALIDITY, UID).
CursorBehindEveryArchivedUid ==
    (sync.pc = "fetch" /\ start_uid(sync) > 1) =>
        \A uid \in server.uids :
            uid < start_uid(sync) =>
                HasLocation(db, Mailbox.id, sync.current_uidvalidity, uid)

-----------------------------------------------------------------------------
(* Properties of the checks of an archive nobody modifies (SpecChecks: the
   external actor takes no step there). *)

\* C28: if no actor outside the system modifies the archive, no integrity
\* check (at start-up, quick or full) reports ok = false and no
\* tampering_detected event is recorded, also when the check runs after a
\* sync that failed or was interrupted between the ingest of a message and
\* the sync_finished event.
NoTamperingReportedWithoutTampering ==
    /\ integrity # <<>> => integrity[1].ok
    /\ \A i \in 1..Len(db.events) :
          db.events[i].kind # EVENT_KIND_TAMPERING_DETECTED

-----------------------------------------------------------------------------
(* Properties of concurrent appends (SpecConnections). *)

\* C29: when several operations append events at a time over separate
\* connections, every committed event's prev_hash is the hash of the event
\* committed immediately before it (the zero hash for the first one): no two
\* events share a prev_hash and none is linked to a stale tail.
EveryEventLinkedToCommittedTail ==
    /\ \A i \in 1..Len(db.events) :
          db.events[i].prev_hash =
              IF i = 1 THEN ZeroHash ELSE db.events[i - 1].hash
    /\ \A i, j \in 1..Len(db.events) :
          i # j => db.events[i].prev_hash # db.events[j].prev_hash

\* Two events are committed while a connection still holds a transaction
\* that read the tail before the last commit.
EveryEventLinkedToCommittedTailWitness ==
    /\ Len(db.events) >= 2
    /\ \E c \in Connections :
          /\ connections[c].pc = "read"
          /\ last_event_hash_tx(connections[c].snapshot[1])
                 # last_event_hash_tx(db)

-----------------------------------------------------------------------------
(* Properties of a failing SELECT (SpecSync). *)

\* The SELECT of the mailbox in sync fails in this step.
SelectFails ==
    /\ sync.pc = "select"
    /\ last'.op = "sync_mailbox"
    /\ last'.fault = "select"

\* The mailboxes before the one in sync that the run synced without error.
SyncedEarlier ==
    {sync.mailboxes[j].id : j \in 1..(sync.idx - 1)} \ sync.failed

\* The step leaves the rows of the mailboxes synced earlier in the run as
\* they are: cursor not below the one the run started from, no last_error.
EarlierMailboxesKept ==
    \A id \in SyncedEarlier :
        /\ MailboxRow(db', id) = MailboxRow(db, id)
        /\ MailboxRow(db', id).last_error = NoError
        /\ MailboxRow(db', id).last_seen_uid >= RowAtStart(id).last_seen_uid

\* C31 (as stated): when SELECT fails for a mailbox, its stored
\* last_seen_uid and uidvalidity are what they were before the run and its
\* last_error is set, while a mailbox synced successfully earlier in the run
\* keeps its advanced cursor and a null last_error.
SelectFailureKeepsCursorSetsError ==
    [][SelectFails =>
        LET row == MailboxRow(db', Mailbox.id)
        IN  /\ row.last_seen_uid = Mailbox.last_seen_uid
            /\ row.uidvalidity = Mailbox.uidvalidity
            /\ row.last_error = SomeError
            /\ EarlierMailboxesKept]_vars

\* C31 (amended): as stated, except that last_error is set when the
\* update_mailbox_cursor of the error branch succeeds; when it fails the row
\* is left as it was.
SelectFailureKeepsCursorSetsErrorUnlessWriteFails ==
    [][SelectFails =>
        LET row == MailboxRow(db', Mailbox.id)
        IN  /\ row.last_seen_uid = Mailbox.last_seen_uid
            /\ row.uidvalidity = Mailbox.uidvalidity
            /\ IF Mailbox.id \in sync'.unrecorded
               THEN row = MailboxRow(db, Mailbox.id)
               ELSE row.last_error = SomeError
            /\ EarlierMailboxesKept]_vars

\* The SELECT of the second mailbox failed; its row keeps the cursor 1 it
\* had and has the error, and the first mailbox, synced before it in the
\* run, has its cursor advanced to 1 and no error.
SelectFailureKeepsCursorSetsErrorUnlessWriteFailsWitness ==
    /\ last.op = "sync_mailbox" /\ last.fault = "select"
    /\ sync.idx = 3
    /\ sync.failed = {sync.mailboxes[2].id}
    /\ sync.unrecorded = {}
    /\ sync.mailboxes[2].last_seen_uid = 1
    /\ MailboxRow(db, sync.mailboxes[2].id).last_seen_uid = 1
    /\ MailboxRow(db, sync.mailboxes[2].id).last_error = SomeError
    /\ sync.mailboxes[1].last_seen_uid = 0
    /\ MailboxRow(db, sync.mailboxes[1].id).last_seen_uid = 1
    /\ MailboxRow(db, sync.mailboxes[1].id).last_error = NoError

-----------------------------------------------------------------------------
(* Properties of a mailbox sync that completes (SpecSystem). *)

\* sync_mailbox returns Ok(()) in this step, from the UIDNEXT short-circuit
\* or after the fetches.
MailboxSyncCompletes ==
    /\ sync.pc \in {"select", "fetch"}
    /\ last'.op = "sync_mailbox"
    /\ last'.ok

\* The cursor the mailbox sync started from: in the short-circuit the stored
\* one, otherwise the one left by the UIDVALIDITY comparison.
StartingCursor ==
    IF sync.pc = "select" THEN Mailbox.last_seen_uid ELSE sync.last_seen_uid

HighestUid(uids) == CHOOSE uid \in uids : \A other \in uids : other <= uid

\* The row holds the UIDVALIDITY of the SELECT response (the short-circuit
\* is taken with the stored value or, with none stored, any reported one).
ReportedUidValidityStored(row) ==
    IF sync.pc = "fetch"
    THEN sync.current_uidvalidity # 0
            => row.uidvalidity = sync.current_uidvalidity
    ELSE row.uidvalidity \in (server.uid_validities \ {0})
                                \cup {Mailbox.uidvalidity}

-----------------------------------------------------------------------------
(* Properties of the UIDNEXT short-circuit (SpecSync). *)

\* SELECT succeeds for the mailbox in sync in this step.
SelectSucceeds ==
    /\ sync.pc = "select"
    /\ \/ sync'.idx = sync.idx /\ sync'.pc = "fetch"
       \/ sync'.idx = sync.idx + 1
    /\ call'.op = "select_mailbox"

\* The cursor of the mailbox in sync after the UIDVALIDITY comparison with
\* the SELECT response of this step.
CursorAfterSelect ==
    LET current_uidvalidity == call'.output[1]
    IN  IF /\ Mailbox.uidvalidity # Null
           /\ current_uidvalidity # 0
           /\ Mailbox.uidvalidity # current_uidvalidity
        THEN 0 ELSE Mailbox.last_seen_uid

\* sync_mailbox returns in this step: no FETCH follows the SELECT.
ReturnsWithoutFetch == ~(sync'.idx = sync.idx /\ sync'.pc = "fetch")

\* The row keeps its cursor, and has no error when the sync returned Ok(()).
CursorKept(cleared) ==
    LET row == MailboxRow(db', Mailbox.id)
    IN  /\ row.last_seen_uid = MailboxRow(db, Mailbox.id).last_seen_uid
        /\ cleared => row.last_error = NoError

\* C33 (as stated): after SELECT a mailbox sync returns without a fetch
\* exactly when its cursor, after any UIDVALIDITY reset, is greater than 0
\* and UIDNEXT - 1 <= cursor; last_seen_uid is then unchanged and
\* last_error cleared.
ShortCircuitWhenUidNextNotAboveCursor ==
    [][SelectSucceeds =>
        LET uid_next == call'.output[2]
        IN  /\ ReturnsWithoutFetch <=>
                   /\ CursorAfterSelect > 0
                   /\ uid_next # Null
                   /\ uid_next - 1 <= CursorAfterSelect
            /\ ReturnsWithoutFetch => CursorKept(TRUE)]_vars

\* C33 (amended): the short-circuit also needs UIDNEXT > 1, and last_error
\* is cleared when the cursor update succeeds.
ShortCircuitWhenTrustedUidNextNotAboveCursor ==
    [][SelectSucceeds =>
        LET uid_next == call'.output[2]
        IN  /\ ReturnsWithoutFetch <=>
                   /\ CursorAfterSelect > 0
                   /\ uid_next # Null /\ uid_next > 1
                   /\ uid_next - 1 <= CursorAfterSelect
            /\ ~ReturnsWithoutFetch
                   => sync'.last_seen_uid = CursorAfterSelect
            /\ ReturnsWithoutFetch => CursorKept(last'.ok)]_vars

\* The mailbox had cursor 1 and an error; SELECT reported UIDNEXT 2 and the
\* sync returned Ok(()) at once: the row has cursor 1 and no error.
ShortCircuitWhenTrustedUidNextNotAboveCursorWitness ==
    /\ call.op = "select_mailbox" /\ call.output[2] = 2
    /\ last.op = "sync_mailbox" /\ last.ok
    /\ sync.idx > 1
    /\ LET mailbox == sync.mailboxes[sync.idx - 1]
       IN  /\ mailbox.last_seen_uid = 1
           /\ mailbox.last_error = SomeError
           /\ MailboxRow(db, mailbox.id).last_seen_uid = 1
           /\ MailboxRow(db, mailbox.id).last_error = NoError

-----------------------------------------------------------------------------
(* Properties of the UID SEARCH ALL fallback (SpecSync). *)

\* The stream of the primary range fetch ended without error in this step.
PrimaryFetchEnds ==
    /\ sync.pc = "fetch"
    /\ ~sync.fallback
    /\ sync' # sync
    /\ \/ last'.op = "uid_search"
       \/ /\ last'.op = "sync_mailbox"
          /\ last'.fault \in {"none", "uid_search", "fetched_0_messages",
                               "update_mailbox_cursor"}

\* UID SEARCH ALL is issued in this step.
FallbackRuns ==
    \/ last'.op = "uid_search"
    \/ last'.op = "sync_mailbox" /\ last'.fault = "uid_search"

\* C34: the UID SEARCH ALL fallback runs exactly when the cursor is 0 and
\* the primary range fetch returned no messages.
FallbackExactlyWhenPrimaryFetchReturnedNothing ==
    [][PrimaryFetchEnds =>
        (FallbackRuns <=> sync.last_seen_uid = 0 /\ sync.responses = 0)]_vars

-----------------------------------------------------------------------------
(* Properties of verify_event_chain (SpecChain). *)

\* The hash recomputed from the stored columns of an event row.
RecomputedHash(row) ==
    compute_event_hash(row.prev_hash,
        [row EXCEPT !.detail = IF @ = NullDetail THEN JsonObject(<<>>) ELSE @])

\* The rows, by position in id order, whose prev_hash is not the stored
\* hash of the row before (64 zeros for the first) or whose recomputed hash
\* is not the stored one.
MismatchedRows(events) ==
    {i \in 1..Len(events) :
        \/ events[i].prev_hash #
              (IF i = 1 THEN ZeroHash ELSE events[i - 1].hash)
        \/ RecomputedHash(events[i]) # events[i].hash}

FirstRow(rows) == CHOOSE i \in rows : \A j \in rows : i <= j

\* C35: verify_event_chain returns as first_mismatch_event_id the smallest
\* id of an event whose prev_hash differs from the stored hash of the
\* preceding event or whose recomputed hash differs from its stored hash,
\* and no mismatch exactly when there is no such event.
VerifyEventChainReturnsFirstMismatch ==
    [][last'.op = "verify_event_chain" =>
        LET bad == MismatchedRows(db.events)
            result == call'.output[1]
        IN  /\ \A i \in 1..(Len(db.events) - 1) :
                   db.events[i].id < db.events[i + 1].id
            /\ result.first_mismatch_event_id =
                   IF bad = {} THEN Null ELSE db.events[FirstRow(bad)].id
            /\ result.first_mismatch_event_id # Null
                   => \A i \in bad :
                         result.first_mismatch_event_id <= db.events[i].id]_vars

\* verify_event_chain ran on a log with two mismatching events, the first
\* of them after an intact one, and returned the id of that one.
VerifyEventChainReturnsFirstMismatchWitness ==
    /\ last.op = "verify_event_chain"
    /\ MismatchedRows(db.events) = {2, 3}
    /\ call.output[1].first_mismatch_event_id = db.events[2].id

-----------------------------------------------------------------------------
(* Properties of the hashed detail (SpecChain). *)

\* append_event stored an event in this step.
EventAppended ==
    /\ last'.op = "append_event" /\ last'.ok
    /\ call'.op = "append_event"

\* The detail with NULL and the empty string replaced by "{}".
EmptyAsObject(detail) ==
    IF detail \in {NullDetail, RawText("")} THEN JsonObject(<<>>) ELSE detail

\* C38 (as stated): the hash of an appended event is computed with an empty
\* detail replaced by "{}", at the append and at the verification, and the
\* stored detail is the one given.
EmptyDetailHashedAsEmptyObject ==
    [][EventAppended =>
        LET row == db'.events[Len(db'.events)]
            given == call'.input[1]
            normalized == [row EXCEPT !.detail = EmptyAsObject(given)]
        IN  /\ row.detail = given
            /\ row.hash = compute_event_hash(row.prev_hash, normalized)
            /\ RecomputedHash(row) =
                   compute_event_hash(row.prev_hash, normalized)]_vars

\* C38 (amended): the hash of an appended event is computed over the detail
\* as given, so the hash for "" differs from the one for "{}"; the
\* verification recomputes it over the stored detail, replacing only NULL
\* by "{}", and finds the stored hash; the stored detail is the one given.
DetailHashedAsGiven ==
    [][EventAppended =>
        LET row == db'.events[Len(db'.events)]
            given == call'.input[1]
            as_object == [row EXCEPT !.detail = JsonObject(<<>>)]
        IN  /\ row.detail = given
            /\ row.hash = <<row.prev_hash, row.occurred_at, row.kind,
                            "", "", "", given>>
            /\ given = RawText("")
                   => row.hash # compute_event_hash(row.prev_hash, as_object)
            /\ RecomputedHash(row) = row.hash
            /\ RecomputedHash([row EXCEPT !.detail = NullDetail]) =
                   compute_event_hash(row.prev_hash, as_object)]_vars

\* An event was appended with the detail "": the row holds "" and a hash
\* over "", and the chain verifies.
DetailHashedAsGivenWitness ==
    /\ last.op = "append_event" /\ last.ok
    /\ call.op = "append_event" /\ call.input[1] = RawText("")
    /\ db.events[Len(db.events)].detail = RawText("")
    /\ db.events[Len(db.events)].hash[7] = RawText("")
    /\ verify_event_chain(db).first_mismatch_event_id = Null

-----------------------------------------------------------------------------
(* Properties of the order of the mailboxes (SpecOrder). *)

\* The enabled mailboxes were listed in this step: the loop starts.
MailboxLoopStarts ==
    /\ last'.op = "sync_start"
    /\ call'.op = "list_mailboxes"
    /\ sync.pc = "idle"

\* The position of a name in a LIST answer.
ListedAt(names, name) == CHOOSE i \in DOMAIN names : names[i] = name

\* In a run the loop goes through sync.mailboxes from the first to the last.
LoopInSequence ==
    sync.pc \in {"select", "fetch"} /\ sync'.pc \in {"select", "fetch", "finish"}
        => /\ sync'.mailboxes = sync.mailboxes
           /\ sync'.idx \in {sync.idx, sync.idx + 1}

\* C39 (as stated): within one account sync the enabled mailboxes are synced
\* in the order in which the LIST response returned them.
MailboxesSyncedInListOrder ==
    [][/\ LoopInSequence
       /\ MailboxLoopStarts =>
            LET names == call'.output[1]
            IN  \A i, j \in 1..Len(sync'.mailboxes) :
                    i < j => ListedAt(names, sync'.mailboxes[i].imap_name)
                               < ListedAt(names, sync'.mailboxes[j].imap_name)]_vars

\* C39 (amended): within one account sync the enabled mailboxes are synced
\* in ascending order of their names, whatever the order of the LIST
\* response.
MailboxesSyncedInNameOrder ==
    [][/\ LoopInSequence
       /\ MailboxLoopStarts =>
            \A i, j \in 1..Len(sync'.mailboxes) :
                i < j => sync'.mailboxes[i].imap_name
                            < sync'.mailboxes[j].imap_name]_vars

\* LIST returned the second name before INBOX, and the sync has INBOX
\* first.
MailboxesSyncedInNameOrderWitness ==
    /\ last.op = "sync_start"
    /\ call.op = "list_mailboxes"
    /\ call.output[1] = <<2, INBOX>>
    /\ Len(sync.mailboxes) = 2
    /\ sync.mailboxes[1].imap_name = INBOX
    /\ sync.mailboxes[2].imap_name = 2
    /\ sync.idx = 1

-----------------------------------------------------------------------------
(* Properties of the sync-in-progress flag (SpecLock). *)

\* C36: the sync-in-progress flag, and so the value a status reader gets,
\* is true only while a sync operation holds sync_lock; once every started
\* sync operation has finished, with or without error, the flag is false
\* and the lock is free.
SyncInProgressOnlyUnderLock ==
    [][/\ background'.sync_in_progress
            => sync_lock' /\ \E o \in SyncOps : ops'[o] = "running"
       /\ (\A o \in SyncOps : ops'[o] = "idle")
            => ~background'.sync_in_progress /\ ~sync_lock'
       /\ call' # call /\ call'.op = "get_sync_status" /\ call'.output[1]
            => sync_lock /\ \E o \in SyncOps : ops[o] = "running"]_vars

\* A status reader got true during a sync; the sync then failed and the
\* operation returned: no operation is left, the flag is false and the lock
\* is free.
SyncInProgressOnlyUnderLockWitness ==
    /\ call.op = "get_sync_status" /\ call.output[1]
    /\ last.op = "sync_account_once" /\ ~last.ok
    /\ \A o \in SyncOps : ops[o] = "idle"
    /\ ~background.sync_in_progress
    /\ ~sync_lock

-----------------------------------------------------------------------------
(* Properties of the secret store (SpecSecrets). *)

\* No call of the secret store is under way.
AllSecretCallsFinished ==
    \A t \in Callers : secrets.calls[t].pc = "idle"

\* What get_secret returns when it runs alone and no keychain call fails:
\* the cached value, or on a miss what the keychain holds.
get_secret(s) == IF s.cache # Null THEN s.cache ELSE s.keychain

\* C40: after any interleaving of set, get and delete calls, some of whose
\* keychain calls may fail, once all calls have finished a get returns what
\* the keychain holds for the key.
GetReturnsWhatKeychainHolds ==
    AllSecretCallsFinished => get_secret(secrets) = secrets.keychain

-----------------------------------------------------------------------------
(* Sync cycles that keep running (SpecLive).  The server holds INBOX with a
   message of at most 50 MiB under every UID, never changes it, always
   advertises the same UIDVALIDITY and answers every FETCH in full; the
   stream can break after any response.  run_background_loop starts a cycle
   after every interval for as long as the process runs, and every step of
   a cycle returns, so a step that can be taken is taken in the end.
   Every cycle appends a row to the event log; a sync reads of the log the
   hash of its last row only, to chain the next row, so between two cycles
   the model lets the rows written so far out of its view and the runs of a
   log of any length are runs over a bounded one. *)

\* Between two cycles the rows of the event log leave the model's view.
EventLogOutOfView ==
    /\ sync.pc = "idle"
    /\ db.events # <<>>
    /\ db' = [db EXCEPT !.events = <<>>, !.sqlite_sequence.events = 0]
    /\ UNCHANGED <<last, sync, integrity, returned, tamper, server, sync_lock,
                   ops, faults, secrets, connections, background, package,
                   call>>

NextLive ==
    \/ CreateAccountAndDiscoverMailboxes
    \/ SyncStart
    \/ SyncConnectFails
    \/ SyncSelect
    \/ SyncFetch
    \/ SyncFetchEnd
    \/ SyncFinish
    \/ EventLogOutOfView

InitLive ==
    /\ InitApp
    /\ call = NoCall
    /\ server = [ServerWithRecreatedInbox EXCEPT !.uid_validities = {1}]
    /\ faults = {"append_event"}

SpecLive == InitLive /\ [][NextLive]_vars /\ WF_vars(NextLive)

\* The last operation that ended returned no error.
LastReturnedOk == last.ok /\ last.fault = "none"

\* An account sync has just ended without a mailbox error: it returned Ok
\* and its checkpoint carries the status "ok".
CycleEndedWithoutErrors ==
    /\ last.op = "sync_account_once"
    /\ db.events # <<>>
    /\ LastEvent.kind = EVENT_KIND_SYNC_FINISHED
    /\ JsonGet(LastEvent.detail, "status") # <<>>
    /\ JsonGet(LastEvent.detail, "status")[1].str = "ok"

\* Every message of every sync-enabled, non-excluded mailbox of every
\* enabled account has a location row under the server's UIDVALIDITY that
\* points to a blob holding the message's bytes.
EveryMessageArchived ==
    \A m \in db.mailboxes :
        ( /\ m.sync_enabled /\ ~m.hard_excluded
          /\ \E a \in db.accounts : a.id = m.account_id /\ ~a.disabled )
        => \A uid \in server.uids, uidvalidity \in server.uid_validities :
             \E l \in db.message_locations, b \in db.message_blobs :
                 /\ l.mailbox_id = m.id
                 /\ l.uidvalidity = uidvalidity
                 /\ l.uid = uid
                 /\ b.id = l.message_blob_id
                 /\ b.raw_mime \in server.bodies

\* C37: when from some point on no operation returns an error and account
\* syncs keep ending without mailbox errors, then from some point on every
\* message of the server is archived under the server's UIDVALIDITY.
SyncCyclesWithoutErrorsArchiveEveryMessage ==
    (<>[]LastReturnedOk /\ []<>CycleEndedWithoutErrors)
        => <>[]EveryMessageArchived

=============================================================================
